---- MODULE Spec2Model ----
(***************************************************************************)
(* Verification model of the auto-webhook-odoo event pipeline:             *)
(*   - the Event Log (model update.webhook): append with supersession,     *)
(*     pull by cursor, acknowledge, archive/delete sweep;                  *)
(*   - concurrent appends in separate database transactions;               *)
(*   - the universal interception hook on create / write / unlink;         *)
(*   - the push dispatch queue (model webhook.event) with retries.         *)
(* Each part has its own specification over the shared variables.          *)
(***************************************************************************)
EXTENDS Integers, Sequences, FiniteSets, TLC

VARIABLES
    log,        \* rows of update.webhook visible to every transaction
    nextId,     \* next value of the update_webhook id sequence
    errors,     \* rows of webhook.errors, in insertion order
    today,      \* clock of the Event Log, in days
    pullRes,    \* the value returned by the last pull_events call
    lastOp,     \* the last create_event call and what it returned
    tx,         \* per database transaction: its uncommitted inserts and deletes
    cursor,     \* the last_id the pulling consumer holds
    delivered,  \* the ids the consumer was returned, in order
    rules,      \* the active rows of webhook.rule
    ruleCache,  \* the class-level rule cache of webhook.rule
    debounce,   \* the class-level debounce cache of the hook
    current_time, \* time.time() of the hook, in seconds
    hostRows,   \* the life cycle of each record of the host model
    host,       \* the last host operation and what its hook did
    config,     \* the enabled row of webhook.config of the host model, if any
    webhookEvents, \* rows of webhook.event, by id
    deadLetters, \* rows of webhook.retry, in insertion order
    audit,      \* rows of webhook.audit, in insertion order
    minuteParity, \* the minutes elapsed on the dispatcher's clock, modulo 2
    clock,      \* seconds elapsed when every attempt is made as soon as it is due
    attempts,   \* the failing delivery attempts made then: row and time
    apiKeyParam, \* the system parameter webhook.api_key ("": not set)
    apiRes,     \* the last request to the pull API with its response
    outbound,   \* a subscriber's settings and the headers of the request sent to it
    workers,    \* per dispatch worker: where it is in process_event on the row 1
    ruleTx,     \* the uncommitted rows of the transaction that creates a rule
    readers,    \* per thread: where it is in _get_rules_for
    cacheLock,  \* the holder of WebhookRule._cache_lock ("free": nobody)
    nested      \* the hook's own writes whose pass through the hook is yet to run

logVars == <<log, nextId, errors, today, pullRes, lastOp>>

concVars == <<tx, cursor, delivered>>

hookVars == <<rules, ruleCache, debounce, current_time, hostRows, host, config>>

vars == <<log, nextId, errors, today, pullRes, lastOp, tx, cursor, delivered,
          rules, ruleCache, debounce, current_time, hostRows, host, config,
          webhookEvents, deadLetters, audit, minuteParity, clock, attempts, apiKeyParam, apiRes,
          outbound, workers, ruleTx, readers, cacheLock, nested>>

\* dispatch workers and the threads that use the rule cache
procVars == <<workers, ruleTx, readers, cacheLock, nested>>

\* the pull API and the HTTP delivery client
apiVars == <<apiKeyParam, apiRes, outbound>>

dispatchVars == <<deadLetters, audit, minuteParity, clock, attempts, apiVars, procVars>>

\* what the operations of the Event Log, taken one call at a time, leave alone
frameLog == <<tx, cursor, delivered, hookVars, webhookEvents, dispatchVars>>

\* what the transactions and the consumer leave alone
frameConc == <<errors, today, pullRes, lastOp, hookVars, webhookEvents, dispatchVars>>

\* what the host operations and their hook leave alone
frameHook == <<today, pullRes, lastOp, tx, cursor, delivered, config, dispatchVars>>

\* what the dispatcher leaves alone
frameDispatch == <<logVars, concVars, hookVars, clock, attempts, apiVars, procVars>>

\* what the dispatcher leaves alone when it makes every attempt as soon as due
framePunctual == <<logVars, concVars, hookVars, minuteParity, apiVars, procVars>>

\* what a request to the pull API leaves alone
frameApi == <<nextId, errors, today, lastOp, pullRes, concVars, hookVars,
              webhookEvents, deadLetters, audit, minuteParity, clock, attempts,
              outbound, procVars>>

\* what the HTTP delivery client leaves alone when it builds a request
frameClient == <<logVars, concVars, hookVars, webhookEvents, deadLetters, audit,
                 minuteParity, clock, attempts, apiKeyParam, apiRes, procVars>>

\* what a dispatch worker leaves alone
frameWorkers == <<logVars, concVars, hookVars, minuteParity, clock, attempts, apiVars,
                  ruleTx, readers, cacheLock, nested>>

\* what the threads that use the rule cache leave alone
frameThreads == <<logVars, concVars, debounce, current_time, hostRows, host, config,
                  webhookEvents, deadLetters, audit, minuteParity, clock, attempts,
                  apiVars, workers, nested>>

----------------------------------------------------------------------------
(* Bounds of the model *)

MaxId == 4          \* appends stop once the id sequence has passed this value
MaxPullId == 3      \* the same, in the specification of the pull store
MaxErrors == 1      \* at most this many rows in webhook.errors
DayStep == 8        \* the clock advances by this many days at a time
MaxDay == 8         \* the clock stops here
MaxConcId == 3      \* concurrent transactions stop appending past this id
MaxHookId == 3      \* host operations stop once the id sequence has passed this value
StartTime == 100    \* time.time() when the model starts
TickStep == 2       \* the hook's clock advances by this many seconds at a time
MaxElapsed == 4     \* the hook's clock stops this many seconds after StartTime
MaxDispatchEvents == 1 \* at most this many rows of webhook.event in the dispatcher
MaxAuditRows == 6   \* no manual retry once webhook.audit holds this many rows

ModelNames == {"a", "b"}
Transactions == {1, 2}

\* the host model whose records are created, written and deleted
HostModel == "a"
HostRecordIds == {1}
DebounceRecordIds == {1, 2}
Operations == {"create", "write", "unlink"}
\* the rows of webhook.subscriber, and those with enabled = True
Subscribers == {"s1", "s2"}
EnabledSubscribers == {"s1"}

\* places where the hook can raise, in the order the code reaches them
HookFailPoints ==
    {"none", "capture", "debounce", "tracked", "get_rules", "match_fields",
     "last_trigger", "payload", "config_search", "vals", "search", "insert",
     "dispatch_create", "instant_search"}
RecordIds == {1, 2}
EventTypes == {"create", "write", "unlink"}
Priorities == {"high", "medium", "low"}

\* places where an append can raise
FailPoints == {"none", "vals", "search", "unlink", "insert"}

----------------------------------------------------------------------------
(* Event Log: append with supersession (update.webhook create) *)

NewEntry(id, m, r, ev, prio, ts) ==
    [id |-> id, model |-> m, record_id |-> r, event |-> ev, priority |-> prio,
     timestamp |-> ts, is_processed |-> FALSE, is_archived |-> FALSE,
     processed_at |-> -1]

\* self.search([('model','=',model), ('record_id','=',record_id)])
ExistingRecords(lg, m, r) == {e \in lg : e.model = m /\ e.record_id = r}

ExistingEvents(lg, m, r) == {e.event : e \in ExistingRecords(lg, m, r)}

\* Rule 1: a create arriving after writes deletes the writes
DeletesWrites(ev, existing_events) ==
    ev = "create" /\ "write" \in existing_events

\* Rule 2: a write arriving after a create is skipped
SkipsWrite_NoSkip(ev, existing_events) == FALSE

SkipsWrite(ev, existing_events) ==
    ev = "write" /\ "create" \in existing_events

WritesToDelete_KeepOne(existing) ==
    LET ws == {e \in existing : e.event = "write"}
    IN IF ws = {} THEN {}
       ELSE ws \ {CHOOSE e \in ws : \A o \in ws : o.id <= e.id}

WritesToDelete(existing) == {e \in existing : e.event = "write"}

\* the id the database gives to an inserted row
AssignId_Reuse(lg, nid) ==
    IF lg = {} THEN 1
    ELSE (CHOOSE i \in {e.id : e \in lg} : \A e \in lg : e.id <= i) + 1

AssignId(lg, nid) == nid

\* One element of vals_list in UpdateWebhook.create.  The result gives the
\* new table, the new sequence value, the id of the created row (0 when no
\* row was created) and whether an exception reached the handler.
CreateOne(lg, nid, m, r, ev, prio, ts, fail) ==
    LET unchanged == [log |-> lg, nextId |-> nid, ret |-> 0, raised |-> FALSE]
        Insert(lg1) ==
            IF fail = "insert"
            THEN [log |-> lg1, nextId |-> nid, ret |-> 0, raised |-> TRUE]
            ELSE LET id == AssignId(lg1, nid)
                 IN [log |-> lg1 \cup {NewEntry(id, m, r, ev, prio, ts)},
                     nextId |-> nid + 1, ret |-> id, raised |-> FALSE]
    IN IF m = "" \/ r = 0 \/ ev = "" THEN unchanged
       ELSE IF fail = "search" THEN [unchanged EXCEPT !.raised = TRUE]
       ELSE LET existing == ExistingRecords(lg, m, r)
                evs == ExistingEvents(lg, m, r)
            IN IF existing # {} /\ DeletesWrites(ev, evs)
               THEN IF fail = "unlink"
                    THEN [unchanged EXCEPT !.raised = TRUE]
                    ELSE Insert(lg \ WritesToDelete(existing))
               ELSE IF existing # {} /\ SkipsWrite(ev, evs)
               THEN unchanged
               ELSE Insert(lg)

\* the except branch of UpdateWebhook.create: a row in webhook.errors,
\* unless writing that row raises as well
LogError(errs, m, r, sinkFails) ==
    IF sinkFails THEN errs
    ELSE Append(errs, [model |-> m, record_id |-> r, error_message |-> "error"])

\* update.webhook create_event: builds vals and calls create; every
\* exception is caught and False (0) is returned.
CreateEvent(lg, nid, errs, m, r, ev, prio, ts, fail, sinkFails) ==
    IF fail = "vals"
    THEN [log |-> lg, nextId |-> nid, errors |-> errs, ret |-> 0, exc |-> "create_event"]
    ELSE LET c == CreateOne(lg, nid, m, r, ev, prio, ts, fail)
         IN [log |-> c.log, nextId |-> c.nextId,
             errors |-> IF c.raised THEN LogError(errs, m, r, sinkFails) ELSE errs,
             ret |-> c.ret,
             exc |-> IF c.raised THEN "create" ELSE "none"]

----------------------------------------------------------------------------
(* Event Log: pull, acknowledge, maintenance *)

NoModels == {}
NoPriority == "none"

\* the search domain of pull_events
PullDomain_NoProcessedFilter(e, last_event_id, models, priority) ==
    /\ e.id > last_event_id
    /\ ~e.is_archived
    /\ (models # NoModels => e.model \in models)
    /\ (priority # NoPriority => e.priority = priority)

PullDomain(e, last_event_id, models, priority) ==
    /\ e.id > last_event_id
    /\ ~e.is_processed
    /\ ~e.is_archived
    /\ (models # NoModels => e.model \in models)
    /\ (priority # NoPriority => e.priority = priority)

\* the domain of the search_count that decides has_more
HasMoreDomain(e, last_id) ==
    /\ e.id > last_id
    /\ ~e.is_processed
    /\ ~e.is_archived

MinOf(S) == CHOOSE x \in S : \A y \in S : x <= y

\* order='id asc', limit=limit
RECURSIVE SearchAsc(_, _)
SearchAsc(ids, limit) ==
    IF ids = {} \/ limit = 0 THEN <<>>
    ELSE <<MinOf(ids)>> \o SearchAsc(ids \ {MinOf(ids)}, limit - 1)

PullEvents(lg, last_event_id, limit, models, priority) ==
    LET ids == {e.id : e \in {x \in lg : PullDomain(x, last_event_id, models, priority)}}
        events == SearchAsc(ids, limit)
        last_id == IF events # <<>> THEN events[Len(events)] ELSE last_event_id
        has_more == IF events # <<>>
                    THEN \E e \in lg : HasMoreDomain(e, last_id)
                    ELSE FALSE
    IN [events |-> events, last_id |-> last_id, has_more |-> has_more,
        count |-> Len(events)]

\* mark_batch_as_processed: browse(event_ids).write({'is_processed': True})
MarkBatchAsProcessed(lg, ids, now) ==
    {IF e.id \in ids THEN [e EXCEPT !.is_processed = TRUE, !.processed_at = now]
     ELSE e : e \in lg}

\* action_unmark_processed on the selected rows
UnmarkProcessed(lg, ids) ==
    {IF e.id \in ids THEN [e EXCEPT !.is_processed = FALSE, !.processed_at = -1]
     ELSE e : e \in lg}

DaysToArchive == 7
DaysToDelete == 30

\* the domain of the first search of cleanup_old_events
ArchiveDomain_AnyEntry(e, now) ==
    ~e.is_archived /\ e.timestamp < now - DaysToArchive

ArchiveDomain(e, now) ==
    e.is_processed /\ ~e.is_archived /\ e.timestamp < now - DaysToArchive

\* cleanup_old_events: archive old processed rows, then delete old archived rows
CleanupOldEvents(lg, now) ==
    LET to_archive == {e \in lg : ArchiveDomain(e, now)}
        lg1 == {IF e \in to_archive THEN [e EXCEPT !.is_archived = TRUE] ELSE e : e \in lg}
        to_delete == {e \in lg1 : e.is_archived /\ e.timestamp < now - DaysToDelete}
    IN lg1 \ to_delete

----------------------------------------------------------------------------
(* Operations of the Event Log, one call at a time *)

NoPull == [called |-> FALSE]

Op(kind, m, r, ev, ret, exc) ==
    [kind |-> kind, model |-> m, record_id |-> r, event |-> ev, ret |-> ret, exc |-> exc]

NoOp == Op("none", "", 0, "", 0, "none")

NoTx == [open |-> FALSE, inserts |-> {}, deletes |-> {}]

InitLog ==
    /\ log = {}
    /\ nextId = 1
    /\ errors = <<>>
    /\ today = 0
    /\ pullRes = NoPull
    /\ lastOp = NoOp

InitConc ==
    /\ tx = [t \in Transactions |-> NoTx]
    /\ cursor = 0
    /\ delivered = <<>>

\* _rules_cache = {}, _tracked_models = set(), _cache_valid = False
RuleKeys == {HostModel} \X Operations

InvalidCache ==
    [valid |-> FALSE, rules |-> [k \in RuleKeys |-> {}], tracked |-> {}]

\* _webhook_debounce_cache = {}; a key that is absent reads as 0
DebounceKeys == ModelNames \X DebounceRecordIds \X {"create_write", "unlink"}

NoHost ==
    [op |-> "none", record_id |-> 0, fail |-> "none", sink_fails |-> FALSE,
     raised |-> FALSE, returned |-> FALSE, debounced |-> FALSE,
     append |-> "not_called", committed |-> FALSE, at |-> 0]

\* no row of webhook.config for the host model, and a row with the defaults
\* of its fields that tracks the given events
NoConfig ==
    [exists |-> FALSE, events |-> {}, filtered_fields |-> {}, subscribers |-> {},
     instant_send |-> FALSE, priority |-> "medium"]

Config(events) == [NoConfig EXCEPT !.exists = TRUE, !.events = events]

InitHook ==
    /\ rules = {}
    /\ config = NoConfig
    /\ ruleCache = InvalidCache
    /\ debounce = [k \in DebounceKeys |-> 0]
    /\ current_time = StartTime
    /\ hostRows = [r \in DebounceRecordIds |-> "new"]
    /\ host = NoHost
    /\ webhookEvents = <<>>

InitDispatch ==
    /\ deadLetters = <<>>
    /\ audit = <<>>
    /\ minuteParity = 0
    /\ clock = 0
    /\ attempts = <<>>

NoRequest ==
    [endpoint |-> "none", key |-> "absent", session |-> FALSE, failed |-> FALSE,
     ids |-> {}, status |-> 0, error |-> FALSE, success |-> FALSE, events |-> <<>>,
     user |-> "none"]

\* a row of webhook.subscriber with the defaults of its fields
DefaultSubscriber ==
    [auth_type |-> "none", auth_token |-> "", api_key |-> "",
     api_key_header |-> "X-API-Key", custom_headers |-> <<>>]

InitApi ==
    /\ apiKeyParam = ""
    /\ apiRes = NoRequest
    /\ outbound = [subscriber |-> DefaultSubscriber, sent |-> FALSE, headers |-> <<>>]

Workers == {"w1", "w2"}
Readers == {"r1", "r2"}

\* a worker that is not in process_event
IdleWorker ==
    [pc |-> "idle", seen |-> <<>>, flushed |-> FALSE, outcome |-> "none",
     after_abandon |-> FALSE]

\* a thread that is not in _get_rules_for
IdleReader ==
    [pc |-> "idle", operation |-> "none", active_at_call |-> {}, hit |-> FALSE,
     seen |-> {}, rules |-> {}, value |-> {}]

NoRuleTx == [open |-> FALSE, inserts |-> {}]

InitProc ==
    /\ workers = [w \in Workers |-> IdleWorker]
    /\ ruleTx = NoRuleTx
    /\ readers = [r \in Readers |-> IdleReader]
    /\ cacheLock = "free"
    /\ nested = <<>>

Init == InitLog /\ InitConc /\ InitHook /\ InitDispatch /\ InitApi /\ InitProc

AppendEvent(m, r, ev, prio, fail, sinkFails) ==
    /\ nextId <= MaxId
    /\ LET c == CreateEvent(log, nextId, errors, m, r, ev, prio, today, fail, sinkFails)
       IN /\ Len(c.errors) <= MaxErrors
          /\ log' = c.log
          /\ nextId' = c.nextId
          /\ errors' = c.errors
          /\ lastOp' = Op("append", m, r, ev, c.ret, c.exc)
    /\ pullRes' = NoPull
    /\ UNCHANGED <<today, frameLog>>

Pull(last_event_id, limit, models, priority) ==
    /\ pullRes' = [called |-> TRUE, last_event_id |-> last_event_id, limit |-> limit,
                   models |-> models, priority |-> priority,
                   result |-> PullEvents(log, last_event_id, limit, models, priority)]
    /\ UNCHANGED lastOp
    /\ UNCHANGED <<log, nextId, errors, today, frameLog>>

MarkProcessed(ids) ==
    /\ log' = MarkBatchAsProcessed(log, ids, today)
    /\ UNCHANGED lastOp
    /\ pullRes' = NoPull
    /\ UNCHANGED <<nextId, errors, today, frameLog>>

Unmark(ids) ==
    /\ log' = UnmarkProcessed(log, ids)
    /\ UNCHANGED lastOp
    /\ pullRes' = NoPull
    /\ UNCHANGED <<nextId, errors, today, frameLog>>

Cleanup ==
    /\ log' = CleanupOldEvents(log, today)
    /\ UNCHANGED lastOp
    /\ pullRes' = NoPull
    /\ UNCHANGED <<nextId, errors, today, frameLog>>

\* `step` days pass
AdvanceDaysBy(step, maxDay) ==
    /\ today + step <= maxDay
    /\ today' = today + step
    /\ UNCHANGED lastOp
    /\ pullRes' = NoPull
    /\ UNCHANGED <<log, nextId, errors, frameLog>>

AdvanceDays == AdvanceDaysBy(DayStep, MaxDay)

\* Appends alone, one call at a time
NextAppend ==
    \E m \in ModelNames, r \in RecordIds, ev \in EventTypes :
         AppendEvent(m, r, ev, "medium", "none", FALSE)

SpecAppend == Init /\ [][NextAppend]_vars

NextPull ==
    \/ \E mp \in {<<"a", "high">>, <<"a", "medium">>, <<"b", "high">>} :
            nextId <= MaxPullId /\ AppendEvent(mp[1], 1, "unlink", mp[2], "none", FALSE)
    \/ \E last_event_id \in 0 .. 1, limit \in 1 .. 2,
          models \in {NoModels, {"a"}}, priority \in {NoPriority, "high"} :
            Pull(last_event_id, limit, models, priority)
    \/ \E ids \in {{i} : i \in 1 .. MaxPullId} \cup {1 .. MaxPullId} : MarkProcessed(ids)
    \/ Cleanup
    \/ AdvanceDays

SpecPull == Init /\ [][NextPull]_vars

\* C4: pull_events returns exactly the first `limit` entries, in ascending id
\* order, of the entries with id > last_event_id that are neither processed
\* nor archived and pass the models and priority filters; count is their
\* number and last_id the greatest id returned, or last_event_id when none is.
C4_PullReturnsFirstMatching ==
    pullRes.called =>
        LET res == pullRes.result
            matching == {e.id : e \in {x \in log :
                            /\ x.id > pullRes.last_event_id
                            /\ x.is_processed = FALSE
                            /\ x.is_archived = FALSE
                            /\ (pullRes.models # {} => x.model \in pullRes.models)
                            /\ (pullRes.priority # "none" => x.priority = pullRes.priority)}}
            n == Len(res.events)
            returned == {res.events[i] : i \in 1 .. n}
        IN /\ returned \subseteq matching
           /\ \A i, j \in 1 .. n : i < j => res.events[i] < res.events[j]
           /\ n = IF Cardinality(matching) < pullRes.limit
                  THEN Cardinality(matching) ELSE pullRes.limit
           /\ \A x \in matching \ returned : \A y \in returned : y < x
           /\ res.count = n
           /\ res.last_id = IF n = 0 THEN pullRes.last_event_id
                            ELSE CHOOSE y \in returned : \A z \in returned : z <= y

C4_Witness ==
    /\ pullRes.called
    /\ pullRes.result.count = 2
    /\ pullRes.result.events = <<2, 3>>
    /\ pullRes.last_event_id = 0
    /\ \E e \in log : e.id = 1 /\ e.is_processed /\ ~e.is_archived

\* C5: has_more is true exactly when a further entry of the same selection
\* (unprocessed, unarchived, same models and priority filters) exists with an
\* id greater than the returned last_id.
C5_HasMoreIffFurtherMatching ==
    pullRes.called =>
        (pullRes.result.has_more <=>
            \E e \in log :
                /\ e.id > pullRes.result.last_id
                /\ ~e.is_processed
                /\ ~e.is_archived
                /\ (pullRes.models # {} => e.model \in pullRes.models)
                /\ (pullRes.priority # "none" => e.priority = pullRes.priority))

----------------------------------------------------------------------------
(* Appends in concurrent database transactions and a pulling consumer.     *)
(* The id comes from the table's sequence when the row is inserted; the    *)
(* row is visible to other transactions once its transaction commits.      *)

\* create_event inside transaction t, which sees the committed rows
TxAppend(t, m, r, ev) ==
    /\ ~tx[t].open
    /\ nextId <= MaxConcId
    /\ LET c == CreateEvent(log, nextId, errors, m, r, ev, "medium", today, "none", FALSE)
           inserted == c.log \ log
           deleted == {e.id : e \in log \ c.log}
       IN \* a row being deleted by an open transaction is locked
          /\ \A u \in Transactions \ {t} : tx[u].deletes \cap deleted = {}
          /\ tx' = [tx EXCEPT ![t] = [open |-> TRUE, inserts |-> inserted,
                                      deletes |-> deleted]]
          /\ nextId' = c.nextId
    /\ UNCHANGED <<log, cursor, delivered, frameConc>>

TxCommit(t) ==
    /\ tx[t].open
    /\ log' = {e \in log : e.id \notin tx[t].deletes} \cup tx[t].inserts
    /\ tx' = [tx EXCEPT ![t] = NoTx]
    /\ UNCHANGED <<nextId, cursor, delivered, frameConc>>

TxRollback(t) ==
    /\ tx[t].open
    /\ tx' = [tx EXCEPT ![t] = NoTx]
    /\ UNCHANGED <<log, nextId, cursor, delivered, frameConc>>

\* the consumer passes the last_id of its previous result as last_event_id
ConsumerPull(limit) ==
    /\ LET res == PullEvents(log, cursor, limit, NoModels, NoPriority)
       IN /\ delivered' = delivered \o res.events
          /\ cursor' = res.last_id
    /\ UNCHANGED <<log, nextId, tx, frameConc>>

\* the consumer acknowledges what it was returned
ConsumerAck ==
    /\ delivered # <<>>
    /\ log' = MarkBatchAsProcessed(log, {delivered[i] : i \in 1 .. Len(delivered)}, today)
    /\ UNCHANGED <<nextId, tx, cursor, delivered, frameConc>>

NextConc ==
    \/ \E t \in Transactions, r \in RecordIds, ev \in EventTypes :
            TxAppend(t, "a", r, ev)
    \/ \E t \in Transactions : TxCommit(t)
    \/ \E t \in Transactions : TxRollback(t)
    \/ \E limit \in 1 .. 2 : ConsumerPull(limit)
    \/ ConsumerAck

SpecConc == Init /\ [][NextConc]_vars

\* C3: the consumer is returned every committed unacknowledged event exactly
\* once: no committed event with an id at or below the last_id it holds is
\* missing from what it was returned, and no id was returned twice.
C3_PullDeliversEveryCommittedEventOnce ==
    /\ \A e \in log :
          (e.id <= cursor /\ ~e.is_processed /\ ~e.is_archived)
              => \E i \in 1 .. Len(delivered) : delivered[i] = e.id
    /\ \A i, j \in 1 .. Len(delivered) : i # j => delivered[i] # delivered[j]

\* C27: with a create append and a write append for the same
\* (model, record_id) running in concurrent transactions, the committed log
\* never holds both a create entry and a write entry for the pair, as it
\* never does after either serial order
C27_NoCreateWithWriteCommitted ==
    \A m \in ModelNames, r \in RecordIds :
        ~ ({"create", "write"} \subseteq ExistingEvents(log, m, r))

----------------------------------------------------------------------------
(* The rule cache of webhook.rule and the debounce cache of the hook *)

NoDomain == [given |-> FALSE, ids |-> {}]

\* An active rule.  The constraint unique_model_operation allows one active
\* rule for each (model_name, operation), which identifies the rule here.
\* The rules with instant_send are given priority high, the others the
\* default of the field.
Rule(op, instant_send) ==
    [model_name |-> HostModel, operation |-> op, instant_send |-> instant_send,
     priority |-> IF instant_send THEN "high" ELSE "medium",
     subscriber_ids |-> Subscribers, tracked_fields |-> {}, domain |-> NoDomain,
     test_mode |-> FALSE, active |-> TRUE]

\* what stands for the id of a rule: no two rows of the table agree on it
RuleId(rl) == <<rl.model_name, rl.operation, rl.instant_send>>

ActiveRules(rs) == {rl \in rs : rl.active}

\* UNIQUE(model_name, operation, active)
UniqueModelOperation_None(rs) == TRUE

UniqueModelOperation(rs) ==
    \A x, y \in rs :
        (/\ x.model_name = y.model_name
         /\ x.operation = y.operation
         /\ x.active = y.active) => x = y

\* _invalidate_cache
InvalidateCache_Keep(cache) == cache

InvalidateCache(cache) == InvalidCache

\* _rebuild_cache: the ids of the active rules by model and operation
RebuildCache(rs) ==
    [valid |-> TRUE,
     rules |-> [k \in RuleKeys |->
                   {RuleId(rl) : rl \in {x \in ActiveRules(rs) :
                                            x.model_name = k[1] /\ x.operation = k[2]}}],
     tracked |-> {rl.model_name : rl \in ActiveRules(rs)}]

GetTrackedModels(cache, rs) ==
    LET c == IF cache.valid THEN cache ELSE RebuildCache(rs)
    IN [cache |-> c, value |-> c.tracked]

\* browse(rule_ids).exists(): the cached rules that are still in the table
GetRulesFor(cache, rs, m, op) ==
    LET c == IF cache.valid THEN cache ELSE RebuildCache(rs)
    IN [cache |-> c, value |-> {rl \in rs : RuleId(rl) \in c.rules[<<m, op>>]}]

DEBOUNCE_SECONDS == 3
EvictAfter == 60

\* create and write share one key
DebounceKey_PerModel(m, r, op) ==
    IF op \in {"create", "write"} THEN <<m, 1, "create_write">> ELSE <<m, 1, op>>

DebounceKey(m, r, op) ==
    IF op \in {"create", "write"} THEN <<m, r, "create_write">> ELSE <<m, r, op>>

ShouldTrigger_NoWindow(cache, t, m, r, op) ==
    [cache |-> [cache EXCEPT ![DebounceKey(m, r, op)] = t], ok |-> TRUE]

ShouldTrigger(cache, t, m, r, op) ==
    LET cleaned == [k \in DOMAIN cache |->
                       IF t - cache[k] > EvictAfter THEN 0 ELSE cache[k]]
        last_trigger == cleaned[DebounceKey(m, r, op)]
    IN IF t - last_trigger < DEBOUNCE_SECONDS
       THEN [cache |-> cleaned, ok |-> FALSE]
       ELSE [cache |-> [cleaned EXCEPT ![DebounceKey(m, r, op)] = t], ok |-> TRUE]

----------------------------------------------------------------------------
(* The hook.  Every step works on a record s of the state it can change    *)
(* and gives back the new state with the exception that leaves the step    *)
(* ("none" when it returns normally).                                      *)

\* the value of the one element of S, computed once
Only(S) == CHOOSE x \in S : TRUE

\* `except Exception`: what leaves the handler of an exception exc
ExceptException_Reraise(exc) == exc

ExceptException(exc) == "none"

\* the step of create_event that ctx.fail names, if any
AppendFail(fail) == IF fail \in FailPoints THEN fail ELSE "none"

AppendOutcome(c) ==
    IF c.exc # "none" THEN c.exc ELSE IF c.ret = 0 THEN "skipped" ELSE "ok"

DefaultMaxRetries == 5

NewWebhookEvent(r, op, subscriber, prio) ==
    [model |-> HostModel, record_id |-> r, event |-> op, subscriber_id |-> subscriber,
     priority |-> prio, status |-> "pending", retry_count |-> 0,
     max_retries |-> DefaultMaxRetries, next_retry_in |-> 0,
     response_code |-> 0, sent_ago |-> -1]

\* _webhook_is_model_tracked: the tracked models of the rules, then the
\* enabled row of webhook.config
IsModelTracked(s, rs, ctx) ==
    IF ctx.fail = "tracked"
    THEN [s |-> s, value |-> FALSE, exc |-> ExceptException("tracked")]
    ELSE LET g == GetTrackedModels(s.cache, rs)
         IN [s |-> [s EXCEPT !.cache = g.cache],
             value |-> HostModel \in g.value \/ ctx.config.exists, exc |-> "none"]

\* _webhook_get_rules
GetRules(s, rs, ctx) ==
    IF ctx.fail = "get_rules"
    THEN [s |-> s, value |-> {}, exc |-> ExceptException("get_rules")]
    ELSE LET g == GetRulesFor(s.cache, rs, HostModel, ctx.op)
         IN [s |-> [s EXCEPT !.cache = g.cache], value |-> g.value, exc |-> "none"]

MatchTrackedFields(rl, changed_vals) ==
    \/ rl.tracked_fields = {}
    \/ changed_vals = {}
    \/ rl.tracked_fields \cap changed_vals # {}

\* an error in the evaluation of the domain counts as a match
MatchDomain(rl, r) ==
    IF ~rl.domain.given THEN TRUE ELSE r \in rl.domain.ids

\* subscriber_ids.filtered('enabled')
Enabled(subscribers) == subscribers \cap EnabledSubscribers

\* webhook.rule _create_webhook_events: one pending row per enabled subscriber
RECURSIVE CreateWebhookEvents(_, _, _, _)
CreateWebhookEvents(s, subscribers, rl, ctx) ==
    IF subscribers = {} THEN [s |-> s, exc |-> "none"]
    ELSE LET subscriber == CHOOSE x \in subscribers : TRUE
             exc == IF ctx.fail = "dispatch_create"
                    THEN ExceptException("dispatch_create") ELSE "none"
             s1 == IF ctx.fail = "dispatch_create" THEN s
                   ELSE [s EXCEPT !.events = Append(@,
                            NewWebhookEvent(ctx.record_id, ctx.op, subscriber, rl.priority))]
         IN IF exc # "none" THEN [s |-> s1, exc |-> exc]
            ELSE CreateWebhookEvents(s1, subscribers \ {subscriber}, rl, ctx)

\* webhook.rule _send_instant_events: for each pending row of the record the
\* transaction is committed and _send_to_subscriber is called; webhook.event
\* has no such method, so the call raises and the row stays pending
SendInstantEvents(s, rl, ctx) ==
    IF ctx.fail = "instant_search" THEN [s |-> s, exc |-> "instant_search"]
    ELSE LET pending_events ==
                 {i \in DOMAIN s.events :
                     /\ s.events[i].model = HostModel
                     /\ s.events[i].record_id = ctx.record_id
                     /\ s.events[i].status = "pending"}
         IN IF pending_events = {} THEN [s |-> s, exc |-> "none"]
            ELSE [s |-> [s EXCEPT !.committed = TRUE],
                  exc |-> ExceptException("AttributeError")]

\* the statements of trigger_event that follow create_event, whose result is c
AfterCreateEvent(s1, c, rl, ctx) ==
    LET s2 == [s1 EXCEPT !.log = c.log, !.nextId = c.nextId, !.errors = c.errors,
                         !.append = AppendOutcome(c)]
        notify == rl.subscriber_ids # {} /\ ~rl.test_mode
    IN IF c.ret = 0 THEN [s |-> s2, exc |-> "none"]
       ELSE IF ~notify THEN [s |-> s2, exc |-> "none"]
       ELSE Only({IF q.exc # "none" \/ ~rl.instant_send THEN q
                  ELSE SendInstantEvents(q.s, rl, ctx) :
                     q \in {CreateWebhookEvents(s2, Enabled(rl.subscriber_ids), rl, ctx)}})

\* webhook.rule trigger_event
TriggerEvent(s, rl, ctx) ==
    LET s1 == [s EXCEPT !.cache = InvalidCache]
        body ==
          IF ctx.fail = "last_trigger" THEN {[s |-> s, exc |-> "last_trigger"]}
          ELSE IF ctx.fail \in {"payload", "config_search"}
          THEN {[s |-> s1, exc |-> ctx.fail]}
          ELSE {AfterCreateEvent(s1, c, rl, ctx) :
                   c \in {CreateEvent(s1.log, s1.nextId, s1.errors, HostModel,
                                      ctx.record_id, ctx.op, ctx.config.priority,
                                      ctx.today, AppendFail(ctx.fail), ctx.sink_fails)}}
    IN Only({[s |-> b.s, exc |-> ExceptException(b.exc)] : b \in body})

\* one turn of the loop over the rules in _webhook_trigger_create and
\* _webhook_trigger_write: the body of its try block
RuleLoopBody(s, rl, rules_triggered, ctx) ==
    LET skip == [s |-> s, rules_triggered |-> rules_triggered, exc |-> "none"]
    IN IF ctx.op = "write" /\ ctx.fail = "match_fields"
       THEN [skip EXCEPT !.exc = "match_fields"]
       ELSE IF ctx.op = "write" /\ ~MatchTrackedFields(rl, ctx.vals) THEN skip
       ELSE IF ~MatchDomain(rl, ctx.record_id) THEN skip
       ELSE Only({[s |-> te.s, rules_triggered |-> te.exc = "none", exc |-> te.exc] :
                     te \in {TriggerEvent(s, rl, ctx)}})

\* the loop over the rules in _webhook_trigger_create / _webhook_trigger_write
RECURSIVE RuleLoop(_, _, _, _)
RuleLoop(s, todo, rules_triggered, ctx) ==
    IF todo = {} THEN [s |-> s, rules_triggered |-> rules_triggered, exc |-> "none"]
    ELSE Only({IF ExceptException(body.exc) # "none"
               THEN [body EXCEPT !.exc = ExceptException(body.exc)]
               ELSE RuleLoop(body.s, todo \ {body.rl}, body.rules_triggered, ctx) :
                  body \in {[rl |-> rl] @@ RuleLoopBody(s, rl, rules_triggered, ctx) :
                               rl \in {CHOOSE x \in todo : TRUE}}})

\* the two steps of _webhook_trigger_via_config and of
\* _webhook_trigger_unlink_via_config: the entry of update.webhook, then a
\* row of webhook.event for each enabled subscriber of a config with
\* instant_send, followed for priority high by a commit and the call of
\* _send_to_subscriber, which raises
ViaConfigAppend(s, ctx) ==
    Only({LET s1 == [s EXCEPT !.log = c.log, !.nextId = c.nextId,
                              !.errors = c.errors, !.append = AppendOutcome(c)]
              subscribers == Enabled(ctx.config.subscribers)
          IN IF subscribers = {} \/ ~ctx.config.instant_send
             THEN [s |-> s1, exc |-> "none"]
             ELSE Only({IF q.exc = "none" /\ ctx.config.priority = "high"
                           /\ ctx.fail # "dispatch_create"
                        THEN [q EXCEPT !.s.committed = TRUE]
                        ELSE q :
                           q \in {CreateWebhookEvents(s1, subscribers, ctx.config, ctx)}}) :
             c \in {CreateEvent(s.log, s.nextId, s.errors, HostModel, ctx.record_id,
                                ctx.op, ctx.config.priority, ctx.today,
                                AppendFail(ctx.fail), ctx.sink_fails)}})

\* _webhook_trigger_via_config
WebhookTriggerViaConfig(s, ctx) ==
    IF ~ctx.config.exists THEN [s |-> s, exc |-> "none"]
    ELSE IF ctx.op \notin ctx.config.events THEN [s |-> s, exc |-> "none"]
    ELSE IF /\ ctx.op = "write"
            /\ ctx.config.filtered_fields # {}
            /\ ctx.vals # {}
            /\ ctx.config.filtered_fields \cap ctx.vals = {}
    THEN [s |-> s, exc |-> "none"]
    ELSE ViaConfigAppend(s, ctx)

\* _webhook_trigger_create and _webhook_trigger_write, for one record
WebhookTrigger(s, rs, ctx) ==
    Only({IF tr.exc # "none" THEN [s |-> tr.s, exc |-> tr.exc]
          ELSE IF ~tr.value THEN [s |-> tr.s, exc |-> "none"]
          ELSE Only({IF g.exc # "none" THEN [s |-> g.s, exc |-> g.exc]
                     ELSE Only({IF loop.exc # "none" THEN [s |-> loop.s, exc |-> loop.exc]
                                ELSE IF ~loop.rules_triggered
                                THEN WebhookTriggerViaConfig(loop.s, ctx)
                                ELSE [s |-> loop.s, exc |-> "none"] :
                                   loop \in {RuleLoop(g.s, g.value, FALSE, ctx)}}) :
                        g \in {GetRules(tr.s, rs, ctx)}}) :
             tr \in {IsModelTracked(s, rs, ctx)}})

\* the try block of create and of write: debounce check, then the trigger
HookCreateWrite(s, rs, ctx) ==
    LET body ==
          IF ctx.fail = "debounce" THEN {[s |-> s, exc |-> "debounce"]}
          ELSE {IF d.ok
                THEN WebhookTrigger([s EXCEPT !.debounce = d.cache, !.debounced = FALSE],
                                    rs, ctx)
                ELSE [s |-> [s EXCEPT !.debounce = d.cache, !.debounced = TRUE],
                      exc |-> "none"] :
                   d \in {ShouldTrigger(s.debounce, ctx.t, HostModel,
                                        ctx.record_id, ctx.op)}}
    IN Only({[s |-> b.s, exc |-> ExceptException(b.exc)] : b \in body})

NoRecordsData == [captured |-> FALSE, rules |-> {}]

\* _webhook_capture_for_unlink, for one record
WebhookCaptureForUnlink(s, rs, ctx) ==
    IF ctx.fail = "capture" THEN [s |-> s, data |-> NoRecordsData, exc |-> "capture"]
    ELSE
    Only({IF tr.exc # "none" THEN [s |-> tr.s, data |-> NoRecordsData, exc |-> tr.exc]
          ELSE IF ~tr.value THEN [s |-> tr.s, data |-> NoRecordsData, exc |-> "none"]
          ELSE Only({IF g.exc # "none"
                        \/ (g.value = {} /\ "unlink" \notin ctx.config.events)
                     THEN [s |-> g.s, data |-> NoRecordsData, exc |-> g.exc]
                     ELSE IF ctx.fail = "payload"
                     THEN [s |-> g.s, data |-> NoRecordsData,
                           exc |-> ExceptException("payload")]
                     ELSE [s |-> g.s, data |-> [captured |-> TRUE, rules |-> g.value],
                           exc |-> "none"] :
                        g \in {GetRules(tr.s, rs, ctx)}}) :
             tr \in {IsModelTracked(s, rs, ctx)}})

\* _webhook_trigger_unlink_via_config
WebhookTriggerUnlinkViaConfig(s, ctx) ==
    IF ~ctx.config.exists THEN [s |-> s, exc |-> "none"]
    ELSE IF "unlink" \notin ctx.config.events THEN [s |-> s, exc |-> "none"]
    ELSE ViaConfigAppend(s, ctx)

\* one turn of the loop over the rules in _webhook_trigger_unlink: the body
\* of its try block
UnlinkRuleLoopBody(s, rl, rules_triggered, ctx) ==
    IF ctx.fail = "config_search"
    THEN [s |-> s, rules_triggered |-> rules_triggered, exc |-> "config_search"]
    ELSE Only({LET s1 == [s EXCEPT !.log = c.log, !.nextId = c.nextId,
                                   !.errors = c.errors, !.append = AppendOutcome(c)]
               IN IF ctx.fail = "last_trigger"
                  THEN [s |-> s1, rules_triggered |-> rules_triggered,
                        exc |-> "last_trigger"]
                  ELSE [s |-> [s1 EXCEPT !.cache = InvalidCache],
                        rules_triggered |-> TRUE, exc |-> "none"] :
                  c \in {CreateEvent(s.log, s.nextId, s.errors, HostModel,
                                     ctx.record_id, "unlink", ctx.config.priority,
                                     ctx.today, AppendFail(ctx.fail), ctx.sink_fails)}})

\* the loop over the rules in _webhook_trigger_unlink
RECURSIVE UnlinkRuleLoop(_, _, _, _)
UnlinkRuleLoop(s, todo, rules_triggered, ctx) ==
    IF todo = {} THEN [s |-> s, rules_triggered |-> rules_triggered, exc |-> "none"]
    ELSE Only({IF ExceptException(body.exc) # "none"
               THEN [body EXCEPT !.exc = ExceptException(body.exc)]
               ELSE UnlinkRuleLoop(body.s, todo \ {body.rl}, body.rules_triggered, ctx) :
                  body \in {[rl |-> rl] @@ UnlinkRuleLoopBody(s, rl, rules_triggered, ctx) :
                               rl \in {CHOOSE x \in todo : TRUE}}})

\* _webhook_trigger_unlink, for the record captured in data
WebhookTriggerUnlink(s, data, ctx) ==
    IF ~data.captured THEN [s |-> s, exc |-> "none"]
    ELSE Only({IF loop.exc # "none" THEN [s |-> loop.s, exc |-> loop.exc]
               ELSE IF ~loop.rules_triggered
               THEN WebhookTriggerUnlinkViaConfig(loop.s, ctx)
               ELSE [s |-> loop.s, exc |-> "none"] :
                  loop \in {UnlinkRuleLoop(s, data.rules, FALSE, ctx)}})

\* unlink: capture in a try block, the host's unlink, the trigger in a try block
HookUnlink(s, rs, ctx) ==
    Only({IF ExceptException(cap.exc) # "none"
          THEN [s |-> cap.s, exc |-> ExceptException(cap.exc)]
          ELSE Only({[s |-> trig.s, exc |-> ExceptException(trig.exc)] :
                        trig \in {WebhookTriggerUnlink(cap.s,
                                     IF cap.exc # "none" THEN NoRecordsData ELSE cap.data,
                                     ctx)}}) :
             cap \in {WebhookCaptureForUnlink(s, rs, ctx)}})

----------------------------------------------------------------------------
(* Host operations on the records of the host model, with their hook *)

HookState ==
    [log |-> log, nextId |-> nextId, errors |-> errors, cache |-> ruleCache,
     debounce |-> debounce, events |-> webhookEvents,
     debounced |-> FALSE, append |-> "not_called", committed |-> FALSE]

\* the fields of the host model that a write can change
FieldNames == {"name", "state"}

Ctx(op, r, vals, fail, sinkFails) ==
    [op |-> op, record_id |-> r, vals |-> vals, t |-> current_time,
     today |-> today, config |-> config, fail |-> fail, sink_fails |-> sinkFails]

\* the host operation returns (or raises) and the state is what the hook left
HostReturns(op, r, fail, sinkFails, res) ==
    /\ Len(res.s.errors) <= MaxErrors
    /\ log' = res.s.log
    /\ nextId' = res.s.nextId
    /\ errors' = res.s.errors
    /\ ruleCache' = res.s.cache
    /\ debounce' = res.s.debounce
    /\ webhookEvents' = res.s.events
    /\ host' = [op |-> op, record_id |-> r, fail |-> fail, sink_fails |-> sinkFails,
                raised |-> res.exc # "none", returned |-> res.exc = "none",
                debounced |-> res.s.debounced, append |-> res.s.append,
                committed |-> res.s.committed, at |-> current_time]
    /\ UNCHANGED <<rules, current_time, frameHook>>

HostCreate(r, fail, sinkFails) ==
    /\ hostRows[r] = "new"
    /\ nextId <= MaxHookId
    /\ hostRows' = [hostRows EXCEPT ![r] = "live"]
    /\ \E res \in {HookCreateWrite(HookState, rules,
                                    Ctx("create", r, {}, fail, sinkFails))} :
          HostReturns("create", r, fail, sinkFails, res)

\* write(vals) on the record r
HostWriteVals(r, vals, fail, sinkFails) ==
    /\ hostRows[r] = "live"
    /\ nextId <= MaxHookId
    /\ UNCHANGED hostRows
    /\ \E res \in {HookCreateWrite(HookState, rules,
                                    Ctx("write", r, vals, fail, sinkFails))} :
          HostReturns("write", r, fail, sinkFails, res)

HostWrite(r, fail, sinkFails) == HostWriteVals(r, {"name"}, fail, sinkFails)

HostUnlink(r, fail, sinkFails) ==
    /\ hostRows[r] = "live"
    /\ nextId <= MaxHookId
    /\ hostRows' = [hostRows EXCEPT ![r] = "deleted"]
    /\ \E res \in {HookUnlink(HookState, rules,
                               Ctx("unlink", r, {}, fail, sinkFails))} :
          HostReturns("unlink", r, fail, sinkFails, res)

\* webhook.rule create: the row is inserted and the cache invalidated
RuleCreateWith(new) ==
    /\ \A rl \in rules : RuleId(rl) # RuleId(new)
    /\ UniqueModelOperation(rules \cup {new})
    /\ rules' = rules \cup {new}
    /\ ruleCache' = InvalidateCache(ruleCache)
    /\ UNCHANGED <<log, nextId, errors, debounce, current_time, hostRows, host,
                   webhookEvents, frameHook>>

\* the new row is not one of the table
RuleCreate(op, instant_send) ==
    /\ Rule(op, instant_send) \notin rules
    /\ RuleCreateWith(Rule(op, instant_send))

Tick ==
    /\ current_time + TickStep <= StartTime + MaxElapsed
    /\ current_time' = current_time + TickStep
    /\ UNCHANGED <<log, nextId, errors, rules, ruleCache, debounce, hostRows, host,
                   webhookEvents, frameHook>>

\* a failing step, with whether the write to webhook.errors fails as well
FailCases ==
    {<<f, FALSE>> : f \in HookFailPoints} \cup {<<"insert", TRUE>>, <<"search", TRUE>>}

NextHook ==
    \/ \E op \in Operations, instant_send \in BOOLEAN : RuleCreate(op, instant_send)
    \/ \E r \in HostRecordIds, fc \in FailCases : HostCreate(r, fc[1], fc[2])
    \/ \E r \in HostRecordIds, fc \in FailCases : HostWrite(r, fc[1], fc[2])
    \/ \E r \in HostRecordIds, fc \in FailCases : HostUnlink(r, fc[1], fc[2])
    \/ Tick

SpecHook == Init /\ [][NextHook]_vars

\* the step is a host create, write or unlink
HostOpStep ==
    \E r \in HostRecordIds, fc \in FailCases :
        \/ HostCreate(r, fc[1], fc[2])
        \/ HostWrite(r, fc[1], fc[2])
        \/ HostUnlink(r, fc[1], fc[2])

\* an active rule of the table matches the operation on the record
MatchesActiveRule(op, r) ==
    \E rl \in rules : /\ rl.active
                      /\ rl.model_name = HostModel
                      /\ rl.operation = op
                      /\ (rl.domain.given => r \in rl.domain.ids)

\* the operation falls outside the debounce window of its key
NotDebounced(op, r) ==
    \/ op = "unlink"
    \/ current_time - debounce[IF op \in {"create", "write"}
                               THEN <<HostModel, r, "create_write">>
                               ELSE <<HostModel, r, op>>] >= 3

\* the entries of log' whose id no entry of log has
Appended == {e \in log' : \A x \in log : x.id # e.id}

C7_HookNeverFailsHostOperation ==
    /\ ~host.raised
    /\ host.op # "none" => host.returned

C7_Witness ==
    /\ host.op = "create" /\ host.fail = "insert" /\ host.sink_fails
    /\ host.append = "create"
    /\ host.returned

\* C8: when the Event Log append of a host mutation fails, a row with the
\* model and the record id is written to webhook.errors and no entry is added
\* to the log.
C8_FailedAppendLeavesErrorRow ==
    [][(HostOpStep /\ host'.append \in {"create_event", "create"})
       => (/\ log' = log
           /\ Len(errors') = Len(errors) + 1
           /\ errors'[Len(errors')].model = HostModel
           /\ errors'[Len(errors')].record_id = host'.record_id)]_vars

\* C23: a host create, write or delete that the hook handles for a matching
\* rule with subscribers (its entry is appended and no step raises) creates
\* exactly one pending row of webhook.event for each enabled subscriber of
\* the rule, for the record and the operation, and none for a disabled one
C23_OnePendingRecordPerEnabledSubscriber ==
    [][(/\ HostOpStep
        /\ host'.fail = "none"
        /\ host'.append = "ok"
        /\ MatchesActiveRule(host'.op, host'.record_id))
       => /\ Len(webhookEvents') >= Len(webhookEvents)
          /\ \A subscriber \in Subscribers :
                Cardinality({i \in (DOMAIN webhookEvents') \ (DOMAIN webhookEvents) :
                               /\ webhookEvents'[i].subscriber_id = subscriber
                               /\ webhookEvents'[i].status = "pending"
                               /\ webhookEvents'[i].record_id = host'.record_id
                               /\ webhookEvents'[i].event = host'.op})
                  = IF subscriber \in EnabledSubscribers THEN 1 ELSE 0]_vars

\* C24: when the hook returns from a host mutation handled for a rule with
\* instant_send and priority high (its entry is appended and no step
\* raises), rows of webhook.event were created and each of them has left
\* status pending: a delivery attempt has made it sent, failed or dead
C24_InstantSendAttemptsDelivery ==
    [][(/\ HostOpStep
        /\ host'.fail = "none"
        /\ host'.append = "ok"
        /\ host'.op # "unlink"
        /\ \E rl \in rules : /\ rl.active
                              /\ rl.operation = host'.op
                              /\ rl.instant_send
                              /\ rl.priority = "high")
       => /\ Len(webhookEvents') > Len(webhookEvents)
          /\ \A i \in (DOMAIN webhookEvents') \ (DOMAIN webhookEvents) :
                webhookEvents'[i].status \in {"sent", "failed", "dead"}]_vars

\* C38: the handling of a host create, write or unlink that finds the rule
\* cache valid leaves it valid
C38_HookKeepsCacheValid ==
    [][(HostOpStep /\ ruleCache.valid) => ruleCache'.valid]_vars

\* C36: when the hook returns, it has not committed the transaction of the
\* host operation
C36_HookLeavesHostTransactionOpen ==
    host.returned => ~host.committed

----------------------------------------------------------------------------
(* The push dispatch queue (webhook.event): delivery, retries, dead letters. *)
(* The time of a retry is kept as next_retry_in, the seconds that remain     *)
(* until next_retry_at; the clock advances a minute at a time.               *)

\* Outcome of one delivery attempt: the subscriber answered 2xx; the client
\* reported a failure (non-2xx, timeout, connection error) in its result;
\* the attempt raised (no subscriber, disabled subscriber, payload error)
Outcomes == {"success", "http_error", "raise"}

\* the status_code in the result of send_event_data (0: no result)
StatusCode(outcome) ==
    CASE outcome = "success" -> 200
      [] outcome = "http_error" -> 500
      [] OTHER -> 0

\* the rate limit of the subscriber: at most RateLimit deliveries within
\* RateLimitWindow seconds
RateLimit == 1
RateLimitWindow == 60

\* webhook.subscriber check_rate_limit: whether a request is allowed
CheckRateLimit(evs, subscriber) ==
    \/ RateLimit = 0
    \/ Cardinality({i \in DOMAIN evs : /\ evs[i].subscriber_id = subscriber
                                       /\ evs[i].sent_ago >= 0
                                       /\ evs[i].sent_ago <= RateLimitWindow
                                       /\ evs[i].status = "sent"}) < RateLimit

\* values of max_retries given to the rows
MaxRetriesChoices == {2, 5, 6}

BaseDelay == 60
SecondsPerTick == BaseDelay

RECURSIVE Pow2(_)
Pow2(n) == IF n = 0 THEN 1 ELSE 2 * Pow2(n - 1)

\* the delay computed by schedule_retry from the retry_count before the
\* increment
RetryDelay_AfterIncrement(retry_count) == BaseDelay * Pow2(retry_count + 1)

RetryDelay(retry_count) == BaseDelay * Pow2(retry_count)

DispatchState ==
    [events |-> webhookEvents, deadLetters |-> deadLetters, audit |-> audit]

\* mark_as_dead: status dead and a row in webhook.retry
MarkAsDead(d, i) ==
    [d EXCEPT !.events[i].status = "dead",
              !.deadLetters = Append(@, [event_id |-> i,
                                         retry_attempts |-> d.events[i].retry_count,
                                         resolution_status |-> "pending"])]

\* from which retry_count on schedule_retry gives the row up
GivesUp_Never(e) == FALSE

GivesUp(e) == e.retry_count >= e.max_retries

\* schedule_retry
ScheduleRetry(d, i) ==
    IF GivesUp(d.events[i]) THEN MarkAsDead(d, i)
    ELSE [d EXCEPT !.events[i].status = "failed",
                   !.events[i].retry_count = @ + 1,
                   !.events[i].next_retry_in = RetryDelay(d.events[i].retry_count),
                   !.audit = Append(@, [event_id |-> i, action |-> "retried"])]

\* process_event: the row is marked sent whatever the client's result says;
\* only an exception leads to schedule_retry
ProcessEvent(d, i, outcome) ==
    IF d.events[i].status \notin {"pending", "failed"} THEN d
    ELSE IF outcome = "raise"
    THEN ScheduleRetry([d EXCEPT !.events[i].status = "processing"], i)
    ELSE [d EXCEPT !.events[i].status = "sent",
                   !.events[i].response_code = StatusCode(outcome),
                   !.events[i].sent_ago = 0,
                   !.audit = Append(@, [event_id |-> i, action |-> "sent"])]

\* the loop of a pass over the rows in the order the search returned them
RECURSIVE ProcessAll(_, _, _)
ProcessAll(d, order, outcomes) ==
    IF order = <<>> THEN d
    ELSE ProcessAll(ProcessEvent(d, Head(order), outcomes[Head(order)]),
                    Tail(order), outcomes)

\* priority is a Selection stored as its key, and ORDER BY compares the
\* stored strings: 'high' < 'low' < 'medium'
PriorityText(p) ==
    CASE p = "high" -> 1
      [] p = "low" -> 2
      [] p = "medium" -> 3

\* order='priority desc, timestamp asc'; the rows are kept in the order of
\* their creation, so that the index of a row stands for its timestamp
PendingBefore(evs, i, j) ==
    \/ PriorityText(evs[i].priority) > PriorityText(evs[j].priority)
    \/ /\ evs[i].priority = evs[j].priority
       /\ i <= j

\* _order = 'priority desc, timestamp desc', the order of a search that
\* names none
DefaultBefore(evs, i, j) ==
    \/ PriorityText(evs[i].priority) > PriorityText(evs[j].priority)
    \/ /\ evs[i].priority = evs[j].priority
       /\ i >= j

\* the selected rows as process_pending_events iterates over them
RECURSIVE PendingOrder(_, _)
PendingOrder(evs, selected) ==
    IF selected = {} THEN <<>>
    ELSE LET i == CHOOSE x \in selected : \A y \in selected : PendingBefore(evs, x, y)
         IN <<i>> \o PendingOrder(evs, selected \ {i})

\* the selected rows as process_retries iterates over them
RECURSIVE RetryOrder(_, _)
RetryOrder(evs, selected) ==
    IF selected = {} THEN <<>>
    ELSE LET i == CHOOSE x \in selected : \A y \in selected : DefaultBefore(evs, x, y)
         IN <<i>> \o RetryOrder(evs, selected \ {i})

\* the rows process_pending_events selects
PendingSelection(evs) == {i \in DOMAIN evs : evs[i].status = "pending"}

\* the rows process_retries selects: the bound on retry_count is the default
\* of the field max_retries, not the row's own max_retries
RetrySelection(evs) ==
    {i \in DOMAIN evs : /\ evs[i].status = "failed"
                        /\ evs[i].next_retry_in <= 0
                        /\ evs[i].retry_count < DefaultMaxRetries}

DispatchDone(d) ==
    /\ webhookEvents' = d.events
    /\ deadLetters' = d.deadLetters
    /\ audit' = d.audit
    /\ UNCHANGED <<minuteParity, frameDispatch>>

\* webhook.event create: a pending row
EnqueueUpTo(maxEvents, max_retries) ==
    /\ Len(webhookEvents) < maxEvents
    /\ webhookEvents' = Append(webhookEvents,
           [NewWebhookEvent(1, "create", "s1", "medium") EXCEPT !.max_retries = max_retries])
    /\ UNCHANGED <<deadLetters, audit, minuteParity, frameDispatch>>

EnqueueEvent(max_retries) == EnqueueUpTo(MaxDispatchEvents, max_retries)

ProcessPendingEvents(outcomes) ==
    /\ PendingSelection(webhookEvents) # {}
    /\ \E d \in {ProcessAll(DispatchState,
                              PendingOrder(webhookEvents, PendingSelection(webhookEvents)),
                              outcomes)} :
          DispatchDone(d)

ProcessRetries(outcomes) ==
    /\ RetrySelection(webhookEvents) # {}
    /\ \E d \in {ProcessAll(DispatchState,
                              RetryOrder(webhookEvents, RetrySelection(webhookEvents)),
                              outcomes)} :
          DispatchDone(d)

\* the rows once SecondsPerTick seconds have passed; sent_ago, the seconds
\* since sent_at (-1: never sent), is not counted beyond the first value
\* outside the rate limit window
AfterTick(evs) ==
    [i \in DOMAIN evs |->
        [evs[i] EXCEPT !.next_retry_in =
                           IF @ > SecondsPerTick THEN @ - SecondsPerTick ELSE 0,
                       !.sent_ago =
                           IF @ < 0 \/ @ > RateLimitWindow THEN @
                           ELSE @ + SecondsPerTick]]

\* a minute passes
TickMinute ==
    /\ minuteParity' = 1 - minuteParity
    /\ webhookEvents' = AfterTick(webhookEvents)
    /\ UNCHANGED <<deadLetters, audit, frameDispatch>>

\* webhook.retry manual_retry: the operator retries the dead letter k; the
\* event is reset to pending with retry_count 0 and processed at once
CanRetry(dl, k) == dl[k].resolution_status \in {"pending", "retrying"}

ManualRetryResult(d, k, outcome) ==
    LET i == d.deadLetters[k].event_id
        reset == [d EXCEPT !.deadLetters[k].resolution_status = "retrying",
                           !.events[i].status = "pending",
                           !.events[i].retry_count = 0,
                           !.events[i].next_retry_in = 0]
    IN Only({ IF after.events[i].status = "sent"
              THEN [after EXCEPT !.deadLetters[k].resolution_status = "resolved"]
              ELSE after
              : after \in {ProcessEvent(reset, i, outcome)} })

ManualRetry(k, outcome) ==
    /\ k \in DOMAIN deadLetters
    /\ CanRetry(deadLetters, k)
    /\ Len(audit) < MaxAuditRows
    /\ \E d \in {ManualRetryResult(DispatchState, k, outcome)} : DispatchDone(d)

PendingPass ==
    \E outcomes \in [PendingSelection(webhookEvents) -> Outcomes] :
        ProcessPendingEvents(outcomes)

RetryPass ==
    \E outcomes \in [RetrySelection(webhookEvents) -> Outcomes] :
        ProcessRetries(outcomes)

NextDispatch ==
    \/ \E max_retries \in MaxRetriesChoices : EnqueueEvent(max_retries)
    \/ PendingPass
    \/ RetryPass
    \/ TickMinute
    \/ \E k \in DOMAIN deadLetters, outcome \in Outcomes : ManualRetry(k, outcome)

SpecDispatch == Init /\ [][NextDispatch]_vars

\* the cron jobs keep running the two passes, and time keeps advancing
SpecDispatchFair ==
    /\ Init
    /\ [][NextDispatch]_vars
    /\ WF_vars(PendingPass)
    /\ WF_vars(RetryPass)
    /\ WF_vars(TickMinute)

\* the rows of webhook.retry made for the row i of webhook.event
DeadLettersOf(dl, i) == {k \in DOMAIN dl : dl[k].event_id = i}

\* the rows of webhook.retry of the row i that are pending or retrying
OpenDeadLetters(dl, i) ==
    {k \in DeadLettersOf(dl, i) : dl[k].resolution_status \in {"pending", "retrying"}}

\* C37: a row of webhook.event never has more than one row of webhook.retry
\* that is pending or retrying, and a sent row has none
C37_AtMostOneOpenDeadLetter ==
    \A i \in DOMAIN webhookEvents :
        /\ Cardinality(OpenDeadLetters(deadLetters, i)) <= 1
        /\ webhookEvents[i].status = "sent" => OpenDeadLetters(deadLetters, i) = {}

\* C9: the failure that brings retry_count to max_retries moves the row to
\* dead and makes exactly one row of webhook.retry for it, and no later step
\* of the dispatcher changes a dead row
C9_ReachingMaxRetriesMakesDead ==
    [][\A i \in DOMAIN webhookEvents :
          /\ ( /\ webhookEvents[i].retry_count < webhookEvents[i].max_retries
               /\ webhookEvents'[i].retry_count = webhookEvents'[i].max_retries )
             => /\ webhookEvents'[i].status = "dead"
                /\ Cardinality(DeadLettersOf(deadLetters', i)) = 1
          /\ webhookEvents[i].status = "dead"
             => /\ webhookEvents'[i] = webhookEvents[i]
                /\ DeadLettersOf(deadLetters', i) = DeadLettersOf(deadLetters, i)
      ]_vars

\* C10: every row of webhook.event eventually has status sent or dead,
\* whatever its max_retries
C10_EveryRecordEndsSentOrDead ==
    \A i \in 1 .. MaxDispatchEvents :
        (i \in DOMAIN webhookEvents)
            ~> (i \in DOMAIN webhookEvents
                /\ webhookEvents[i].status \in {"sent", "dead"})

\* C11: in every reachable state every row of webhook.event has
\* 0 <= retry_count <= max_retries
C11_RetryCountWithinMax ==
    \A i \in DOMAIN webhookEvents :
        /\ 0 <= webhookEvents[i].retry_count
        /\ webhookEvents[i].retry_count <= webhookEvents[i].max_retries

\* a dead letter was retried by hand and its event has failed again up to
\* retry_count = max_retries
C11_Witness ==
    \E k \in DOMAIN deadLetters :
        /\ deadLetters[k].resolution_status = "retrying"
        /\ webhookEvents[deadLetters[k].event_id].status = "failed"
        /\ webhookEvents[deadLetters[k].event_id].retry_count =
               webhookEvents[deadLetters[k].event_id].max_retries

\* C12: a row of webhook.event has status sent only when the delivery client
\* reported a 2xx response; a reported failure never leaves the row sent
C12_SentOnlyOnSuccess ==
    \A i \in DOMAIN webhookEvents :
        webhookEvents[i].status = "sent"
            => /\ 200 <= webhookEvents[i].response_code
               /\ webhookEvents[i].response_code < 300

----------------------------------------------------------------------------
(* The dispatcher when every attempt is made as soon as it is due: a pass    *)
(* runs whenever it selects a row, and time advances only when no pass       *)
(* selects one.  clock counts the seconds and attempts keeps the time of     *)
(* each attempt that ended in schedule_retry.                                *)

MaxClock == 900    \* the clock stops after this many seconds

RECURSIVE FailedAttempts(_, _, _)
FailedAttempts(selected, outcomes, at) ==
    IF selected = {} THEN <<>>
    ELSE LET i == MinOf(selected)
         IN (IF outcomes[i] = "raise" THEN <<[event_id |-> i, at |-> at]>> ELSE <<>>)
            \o FailedAttempts(selected \ {i}, outcomes, at)

PunctualDone(d, selected, outcomes) ==
    /\ webhookEvents' = d.events
    /\ deadLetters' = d.deadLetters
    /\ audit' = d.audit
    /\ attempts' = attempts \o FailedAttempts(selected, outcomes, clock)
    /\ UNCHANGED <<clock, framePunctual>>

PunctualEnqueue(max_retries) == EnqueueEvent(max_retries)

PunctualPendingPass ==
    /\ PendingSelection(webhookEvents) # {}
    /\ \E outcomes \in [PendingSelection(webhookEvents) -> Outcomes] :
         \E d \in {ProcessAll(DispatchState,
                              PendingOrder(webhookEvents, PendingSelection(webhookEvents)),
                              outcomes)} :
            PunctualDone(d, PendingSelection(webhookEvents), outcomes)

PunctualRetryPass ==
    /\ RetrySelection(webhookEvents) # {}
    /\ \E outcomes \in [RetrySelection(webhookEvents) -> Outcomes] :
         \E d \in {ProcessAll(DispatchState,
                              RetryOrder(webhookEvents, RetrySelection(webhookEvents)),
                              outcomes)} :
            PunctualDone(d, RetrySelection(webhookEvents), outcomes)

PunctualTick ==
    /\ PendingSelection(webhookEvents) = {}
    /\ RetrySelection(webhookEvents) = {}
    /\ clock < MaxClock
    /\ clock' = clock + SecondsPerTick
    /\ webhookEvents' = AfterTick(webhookEvents)
    /\ UNCHANGED <<deadLetters, audit, attempts, framePunctual>>

NextPunctual ==
    \/ \E max_retries \in MaxRetriesChoices : PunctualEnqueue(max_retries)
    \/ PunctualPendingPass
    \/ PunctualRetryPass
    \/ PunctualTick

SpecPunctual == Init /\ [][NextPunctual]_vars

\* the times of the failing attempts of the row i, in order
AttemptTimes(i) ==
    LET idx == {k \in DOMAIN attempts : attempts[k].event_id = i}
        RECURSIVE Times(_)
        Times(rest) == IF rest = {} THEN <<>>
                       ELSE <<attempts[MinOf(rest)].at>> \o Times(rest \ {MinOf(rest)})
    IN Times(idx)

\* C13: schedule_retry on a row with retry_count = k < max_retries sets
\* status failed, retry_count k+1 and the retry 60 * 2^k seconds ahead; with
\* every attempt made when due, the failing attempts of a row come 0, 60,
\* 180, 420 and 900 seconds after its first one
C13_BackoffSchedule ==
    [][\A i \in DOMAIN webhookEvents :
          /\ webhookEvents'[i].retry_count # webhookEvents[i].retry_count
             => /\ webhookEvents[i].retry_count < webhookEvents[i].max_retries
                /\ webhookEvents'[i].status = "failed"
                /\ webhookEvents'[i].retry_count = webhookEvents[i].retry_count + 1
                /\ webhookEvents'[i].next_retry_in =
                       60 * 2 ^ webhookEvents[i].retry_count
          /\ LET times == AttemptTimes(i)'
             IN \A k \in DOMAIN times :
                   /\ k <= 5
                   /\ times[k] - times[1] = <<0, 60, 180, 420, 900>>[k]
      ]_vars

\* a row has made its five failing attempts, the last 900 seconds after the
\* first
C13_Witness ==
    \E i \in DOMAIN webhookEvents :
        /\ Len(AttemptTimes(i)) = 5
        /\ AttemptTimes(i)[5] - AttemptTimes(i)[1] = 900
        /\ webhookEvents[i].retry_count = 5

----------------------------------------------------------------------------
(* The dispatcher with several rows for one subscriber that has a rate limit *)

MaxRateEvents == 2  \* at most this many rows of webhook.event

RateEnqueue == EnqueueUpTo(MaxRateEvents, DefaultMaxRetries)

NextRate ==
    \/ RateEnqueue
    \/ PendingPass
    \/ RetryPass
    \/ TickMinute

SpecRate == Init /\ [][NextRate]_vars

\* the rows sent to the subscriber within the last RateLimitWindow seconds
SentWithinWindow(subscriber) ==
    {i \in DOMAIN webhookEvents : /\ webhookEvents[i].subscriber_id = subscriber
                                  /\ webhookEvents[i].status = "sent"
                                  /\ webhookEvents[i].sent_ago >= 0
                                  /\ webhookEvents[i].sent_ago <= RateLimitWindow}

\* C14: for a subscriber with rate_limit > 0 the number of rows sent to it
\* within the window never exceeds rate_limit: a row that is due while the
\* limit is reached is postponed, not sent
C14_RateLimitRespected ==
    \A subscriber \in Subscribers :
        RateLimit > 0 => Cardinality(SentWithinWindow(subscriber)) <= RateLimit

----------------------------------------------------------------------------
(* Debouncing *)

\* the step is a host write
HostWriteStep == \E r \in HostRecordIds, fc \in FailCases : HostWrite(r, fc[1], fc[2])

\* the last host operation was a write of the record written now, made less
\* than the debounce window ago
WriteInsideWindowOfWrite ==
    /\ HostWriteStep
    /\ host.op = "write"
    /\ host.record_id = host'.record_id
    /\ current_time - host.at < 3

\* C15 (as stated): of two write hook invocations for the same record less
\* than 3 seconds apart, the first is handled and the second appends no
\* EventLogEntry and creates no DispatchRecord; taken here for hooks in which
\* no step raises.
C15_SecondWriteInsideWindowDropped ==
    [][(WriteInsideWindowOfWrite /\ host.fail = "none" /\ host'.fail = "none")
       => (/\ ~host.debounced
           /\ Appended = {}
           /\ webhookEvents' = webhookEvents)]_vars

\* C15 (amended): a write hook invocation made less than 3 seconds after a
\* create or write invocation for the same record that passed the debounce
\* check appends no EventLogEntry and creates no DispatchRecord, so the two
\* invocations append at most one entry, and exactly one when the first
\* appended one.  The window runs from the last invocation that passed the
\* check, not from the last invocation.
C15_WriteInsideWindowOfHandledDropped ==
    [][(/\ HostWriteStep
        /\ host.op \in {"create", "write"}
        /\ host.record_id = host'.record_id
        /\ current_time - host.at < 3
        /\ host.fail = "none" /\ host'.fail = "none"
        /\ ~host.debounced)
       => (/\ host'.debounced
           /\ Appended = {}
           /\ webhookEvents' = webhookEvents
           /\ debounce' = debounce)]_vars

\* a write that appended an entry is followed, inside the window, by a write
\* that was debounced
C15_Witness ==
    /\ host.op = "write" /\ host.debounced /\ host.fail = "none"
    /\ \E e \in log : e.event = "write" /\ e.record_id = host.record_id
    /\ current_time - debounce[<<HostModel, host.record_id, "create_write">>] < 3
    /\ current_time > debounce[<<HostModel, host.record_id, "create_write">>]

\* The hook with two records of the host model and the records of a model
\* that no rule tracks; no step of the hook raises.

\* create or write of a record of the other model: the debounce check, then
\* _webhook_is_model_tracked answers False and the hook returns
OtherModel == CHOOSE m \in ModelNames : m # HostModel

OtherModelHook(r, op) ==
    \E d \in {ShouldTrigger(debounce, current_time, OtherModel, r, op)} :
        /\ debounce' = d.cache
        /\ ruleCache' = IF d.ok THEN GetTrackedModels(ruleCache, rules).cache
                        ELSE ruleCache
        /\ UNCHANGED <<log, nextId, errors, rules, current_time, hostRows, host,
                       webhookEvents, frameHook>>

NextDebounce ==
    \/ \E op \in Operations : RuleCreate(op, FALSE)
    \/ \E r \in DebounceRecordIds : HostCreate(r, "none", FALSE)
    \/ \E r \in DebounceRecordIds : HostWrite(r, "none", FALSE)
    \/ \E r \in DebounceRecordIds : HostUnlink(r, "none", FALSE)
    \/ \E r \in HostRecordIds : OtherModelHook(r, "write")
    \/ Tick

SpecDebounce == Init /\ [][NextDebounce]_vars

\* the debounce key of create and write of the record r of the host model
CreateWriteKey(r) == <<HostModel, r, "create_write">>

\* C16: debounce keys are per (model, record_id), shared by create and
\* write and not by delete: a write inside the window after the create of
\* the same record is dropped; a create or write whose own key is outside
\* its window is handled whatever the keys of other records and models hold,
\* and touches no other key; a delete is never dropped, and appends its
\* entry when a rule matches, also inside the window of a create or write.
C16_DebounceKeyScope ==
    [][\A r \in DebounceRecordIds :
         /\ ( /\ HostWrite(r, "none", FALSE)
              /\ host.op = "create" /\ host.record_id = r /\ ~host.debounced
              /\ current_time - host.at < 3 )
            => (host'.debounced /\ Appended = {} /\ webhookEvents' = webhookEvents)
         /\ ( /\ HostCreate(r, "none", FALSE) \/ HostWrite(r, "none", FALSE)
              /\ current_time - debounce[CreateWriteKey(r)] >= 3 )
            => ~host'.debounced
         /\ (HostCreate(r, "none", FALSE) \/ HostWrite(r, "none", FALSE))
            => \A k \in DebounceKeys \ {CreateWriteKey(r)} : debounce'[k] = debounce[k]
         /\ HostUnlink(r, "none", FALSE)
            => /\ ~host'.debounced
               /\ debounce' = debounce
               /\ MatchesActiveRule("unlink", r)
                    => \E e \in Appended : e.event = "unlink" /\ e.record_id = r
      ]_vars

\* a delete inside the window of the create of its record has appended its
\* entry, and the write of the other record was handled inside that window
\* too, as was a write of the same record id in the other model
C16_Witness ==
    /\ host.op = "unlink" /\ host.record_id = 1
    /\ current_time - debounce[CreateWriteKey(1)] < 3
    /\ current_time - debounce[CreateWriteKey(2)] < 3
    /\ current_time - debounce[<<OtherModel, 1, "create_write">>] < 3
    /\ \E e \in log : e.event = "unlink" /\ e.record_id = 1
    /\ \E e \in log : e.event = "write" /\ e.record_id = 2

----------------------------------------------------------------------------
(* The rule table with its cache: rules are created, switched on and off    *)
(* and deleted while host operations read the cache; one thread.            *)

\* webhook.rule write of active
RuleSetActive(rl, active) ==
    /\ rl \in rules
    /\ rl.active # active
    /\ UniqueModelOperation((rules \ {rl}) \cup {[rl EXCEPT !.active = active]})
    /\ rules' = (rules \ {rl}) \cup {[rl EXCEPT !.active = active]}
    /\ ruleCache' = InvalidateCache(ruleCache)
    /\ UNCHANGED <<log, nextId, errors, debounce, current_time, hostRows, host,
                   webhookEvents, frameHook>>

\* webhook.rule unlink
RuleUnlink(rl) ==
    /\ rl \in rules
    /\ rules' = rules \ {rl}
    /\ ruleCache' = InvalidateCache(ruleCache)
    /\ UNCHANGED <<log, nextId, errors, debounce, current_time, hostRows, host,
                   webhookEvents, frameHook>>

NextRules ==
    \/ \E op \in Operations, instant_send \in BOOLEAN : RuleCreate(op, instant_send)
    \/ \E rl \in rules, active \in BOOLEAN : RuleSetActive(rl, active)
    \/ \E rl \in rules : RuleUnlink(rl)
    \/ \E r \in HostRecordIds : HostCreate(r, "none", FALSE)
    \/ \E r \in HostRecordIds : HostWrite(r, "none", FALSE)
    \/ \E r \in HostRecordIds : HostUnlink(r, "none", FALSE)
    \/ Tick

SpecRules == Init /\ [][NextRules]_vars

\* C17: in every state, reached by any sequence of rule create, write and
\* unlink and of hook reads in one thread, _get_rules_for(model, op) returns
\* exactly the rules of (model, op) that are active in the table and
\* _get_tracked_models exactly the models that have an active rule
C17_RuleCacheCoherent ==
    /\ \A op \in Operations :
          GetRulesFor(ruleCache, rules, HostModel, op).value =
              {rl \in rules : rl.active /\ rl.model_name = HostModel /\ rl.operation = op}
    /\ GetTrackedModels(ruleCache, rules).value =
          {rl.model_name : rl \in {x \in rules : x.active}}

\* a hook has rebuilt the cache after a rule was switched off: the cache is
\* valid, holds the active rule and not the inactive one
C17_Witness ==
    /\ ruleCache.valid
    /\ host.op # "none"
    /\ \E rl \in rules : ~rl.active
    /\ \E rl \in rules : rl.active /\ RuleId(rl) \in ruleCache.rules[<<HostModel, rl.operation>>]

----------------------------------------------------------------------------
(* The pull API controller: /api/webhooks/pull, /mark-processed and /stats *)

MaxApiId == 2       \* the log of the API holds entries with ids up to this

\* values of the X-API-Key header ("absent": no header) and of the parameter
HeaderKeys == {"absent", "", "k1", "k2"}
StoredKeys == {"", "k1"}

\* _authenticate_api_key
AuthenticateApiKey_AnyKey(api_key, valid_api_key) == TRUE

AuthenticateApiKey(api_key, valid_api_key) ==
    IF valid_api_key = "" THEN FALSE ELSE api_key = valid_api_key

\* the session first, the key only without one
GetAuthUser_SessionFirst(key, session, valid_api_key) ==
    IF session THEN "session_user"
    ELSE IF key # "absent" /\ key # "" /\ AuthenticateApiKey(key, valid_api_key)
         THEN "admin" ELSE "none"

\* _get_auth_user: the key decides when the header carries one, else the session
GetAuthUser(key, session, valid_api_key) ==
    IF key # "absent" /\ key # ""
    THEN IF AuthenticateApiKey(key, valid_api_key) THEN "admin" ELSE "none"
    ELSE IF session THEN "session_user" ELSE "none"

\* _error_response: {error: true, message, timestamp} with the status
ErrorResponse(req, status) ==
    [req EXCEPT !.status = status, !.error = TRUE, !.success = FALSE, !.events = <<>>]

\* _make_response of a body that carries success = true
SuccessResponse(req, events) ==
    [req EXCEPT !.status = 200, !.error = FALSE, !.success = TRUE, !.events = events]

\* user = self._get_auth_user() is the first step of every endpoint
Request(endpoint, key, session, failed, ids) ==
    [NoRequest EXCEPT !.endpoint = endpoint, !.key = key, !.session = session,
                      !.failed = failed, !.ids = ids,
                      !.user = GetAuthUser(key, session, apiKeyParam)]

\* update.webhook pull_events with its except branch: a failure of the
\* search is caught and an empty result is returned
PullEventsCaught(lg, last_event_id, limit, failed) ==
    IF failed
    THEN [events |-> <<>>, last_id |-> last_event_id, has_more |-> FALSE, count |-> 0]
    ELSE PullEvents(lg, last_event_id, limit, NoModels, NoPriority)

\* the controller's pull_events
ApiPull(key, session, last_event_id, limit, failed) ==
    /\ LET req == Request("pull", key, session, failed, {})
       IN apiRes' =
            IF req.user = "none"
            THEN ErrorResponse(req, 401)
            ELSE SuccessResponse(req,
                    PullEventsCaught(log, last_event_id, limit, failed).events)
    /\ UNCHANGED <<log, apiKeyParam, frameApi>>

\* the controller's mark_processed; mark_batch_as_processed answers False
\* when its write raises
ApiMarkProcessed(key, session, ids, failed) ==
    /\ LET req == Request("mark", key, session, failed, ids)
           user == req.user
       IN /\ apiRes' = IF user = "none" THEN ErrorResponse(req, 401)
                       ELSE IF ids = {} THEN ErrorResponse(req, 400)
                       ELSE IF failed THEN ErrorResponse(req, 500)
                       ELSE SuccessResponse(req, <<>>)
          /\ log' = IF user = "none" \/ ids = {} \/ failed THEN log
                    ELSE MarkBatchAsProcessed(log, ids, today)
    /\ UNCHANGED <<apiKeyParam, frameApi>>

\* the controller's get_statistics
ApiStats(key, session, failed) ==
    /\ LET req == Request("stats", key, session, failed, {})
       IN apiRes' = IF req.user = "none"
                    THEN ErrorResponse(req, 401)
                    ELSE SuccessResponse(req, <<>>)
    /\ UNCHANGED <<log, apiKeyParam, frameApi>>

\* the administrator sets or clears webhook.api_key
SetApiKey(k) ==
    /\ apiKeyParam # k
    /\ apiKeyParam' = k
    /\ UNCHANGED <<log, apiRes, frameApi>>

ApiStep ==
    \E key \in HeaderKeys, session \in BOOLEAN, failed \in BOOLEAN :
        \/ \E last_event_id \in 0 .. 1, limit \in 1 .. 2 :
              ApiPull(key, session, last_event_id, limit, failed)
        \/ \E ids \in SUBSET (1 .. MaxApiId) : ApiMarkProcessed(key, session, ids, failed)
        \/ ApiStats(key, session, failed)

NextApi ==
    \/ \E m \in ModelNames :
          nextId <= MaxApiId /\ AppendEvent(m, 1, "unlink", "medium", "none", FALSE)
    \/ \E k \in StoredKeys : SetApiKey(k)
    \/ ApiStep

SpecApi == Init /\ [][NextApi]_vars

\* the request carries neither the stored key nor a session
Unauthenticated(req, valid_api_key) ==
    /\ ~req.session
    /\ ~(valid_api_key # "" /\ req.key = valid_api_key)

\* the step is a request to the API: only those change apiRes, and one that
\* repeats the last request with the same answer and changes no entry is a
\* stuttering step
ApiAnswered == apiRes' # apiRes

\* C18: a request to pull, mark-processed or stats that carries neither an
\* X-API-Key equal to the stored webhook.api_key nor a host session is
\* answered 401, returns no event and leaves the log, with every
\* is_processed flag, unchanged
C18_UnauthenticatedRejected ==
    [][(ApiAnswered /\ Unauthenticated(apiRes', apiKeyParam))
       => (/\ apiRes'.status = 401
           /\ apiRes'.error /\ ~apiRes'.success
           /\ apiRes'.events = <<>>
           /\ log' = log)]_vars

\* a mark-processed with a wrong key, for an entry that is in the log and
\* not processed, was answered 401
C18_Witness ==
    /\ apiRes.endpoint = "mark" /\ apiRes.status = 401
    /\ apiKeyParam = "k1" /\ apiRes.key = "k2" /\ ~apiRes.session
    /\ \E e \in log : e.id \in apiRes.ids /\ ~e.is_processed

\* C19: when the Event Log pull fails internally, /api/webhooks/pull answers
\* 500 with an error body, never 200 with success = true
C19_FailedPullAnswers500 ==
    (/\ apiRes.endpoint = "pull"
     /\ apiRes.failed
     /\ apiRes.status # 401)
    => (apiRes.status = 500 /\ apiRes.error /\ ~apiRes.success)

\* the user a request is answered for when the key alone decides
UserByKey(req, valid_api_key) ==
    IF valid_api_key # "" /\ req.key = valid_api_key THEN "admin" ELSE "none"

\* the user a request is answered for when the session alone decides
UserBySession(req) == IF req.session THEN "session_user" ELSE "none"

\* the API key decides whenever the X-API-Key header is present: a wrong
\* key is rejected even with a valid session, every key is rejected while no
\* webhook.api_key is configured, a request accepted by key acts as the
\* admin user, and the session is consulted only when the header is absent
C40_KeyDecidesWhenHeaderPresent ==
    [][ApiAnswered =>
         /\ apiRes'.key # "absent" => apiRes'.user = UserByKey(apiRes', apiKeyParam)
         /\ apiRes'.key = "absent" => apiRes'.user = UserBySession(apiRes')
         /\ apiRes'.user = "none" <=> apiRes'.status = 401]_vars

\* C40: the API key decides whenever the X-API-Key header carries a
\* non-empty value: a wrong key is rejected even with a valid session, every
\* such key is rejected while no webhook.api_key is configured, and a request
\* accepted by key acts as the admin user; the session is consulted when the
\* header is absent or empty
C40_KeyDecidesWhenHeaderNonEmpty ==
    [][ApiAnswered =>
         /\ apiRes'.key \notin {"absent", ""}
               => apiRes'.user = UserByKey(apiRes', apiKeyParam)
         /\ apiRes'.key \in {"absent", ""}
               => apiRes'.user = UserBySession(apiRes')
         /\ apiRes'.user = "none" <=> apiRes'.status = 401]_vars

\* a request with a wrong key and a valid session was answered 401 while a
\* key is configured
C40_Witness ==
    /\ apiRes.endpoint # "none"
    /\ apiKeyParam = "k1" /\ apiRes.key = "k2" /\ apiRes.session
    /\ apiRes.user = "none" /\ apiRes.status = 401

\* the lists of ids given to mark_batch_as_processed
AckIdSets == {{i} : i \in 1 .. MaxPullId} \cup {1 .. MaxPullId}

\* C20: acknowledging is idempotent: a call of mark_batch_as_processed on
\* ids whose entries are all processed already, as they are after a first
\* call on the same list, leaves the log as it is; ids without an entry
\* change nothing
C20_AckIdempotent ==
    [][\A ids \in AckIdSets :
          (/\ MarkProcessed(ids)
           /\ \A e \in log : e.id \in ids => e.is_processed)
          => log' = log]_vars

----------------------------------------------------------------------------
(* The HTTP delivery client: the headers of the request that               *)
(* webhook.subscriber send_event_data posts.  A dict of headers is a        *)
(* function from the header names it holds to their values.                 *)

AuthTypes == {"none", "basic", "bearer", "api_key"}
CustomHeaderNames == {"Authorization", "X-API-Key", "X-Trace"}

\* the values of custom_headers: JSON objects, as _check_custom_headers
\* demands
CustomHeaderChoices == UNION {[names -> {"c1"}] : names \in SUBSET CustomHeaderNames}

SubscriberSettings ==
    [auth_type : AuthTypes, auth_token : {"", "t1"}, api_key : {"", "k1"},
     api_key_header : {"X-API-Key"}, custom_headers : CustomHeaderChoices]

BaseHeaders ==
    [n \in {"Content-Type", "User-Agent"} |->
        IF n = "Content-Type" THEN "application/json" ELSE "Odoo-Webhook/1.0"]

\* headers[k] = v
SetHeader(headers, k, v) ==
    [n \in (DOMAIN headers) \cup {k} |-> IF n = k THEN v ELSE headers[n]]

\* headers.update(custom)
UpdateHeaders(headers, custom) ==
    [n \in (DOMAIN headers) \cup (DOMAIN custom) |->
        IF n \in DOMAIN custom THEN custom[n] ELSE headers[n]]

\* the authentication header of the subscriber
AddAuthentication(sub, headers) ==
    IF sub.auth_type = "bearer" /\ sub.auth_token # ""
    THEN SetHeader(headers, "Authorization", "Bearer " \o sub.auth_token)
    ELSE IF sub.auth_type = "api_key" /\ sub.api_key # ""
    THEN SetHeader(headers, sub.api_key_header, sub.api_key)
    ELSE IF sub.auth_type = "basic" /\ sub.auth_token # ""
    THEN SetHeader(headers, "Authorization", "Basic " \o sub.auth_token)
    ELSE headers

\* the headers send_event_data passes to requests.post
RequestHeaders(sub) ==
    UpdateHeaders(AddAuthentication(sub, BaseHeaders), sub.custom_headers)

\* webhook.subscriber write of the settings
SubscriberWrite(settings) ==
    /\ outbound' = [subscriber |-> settings, sent |-> FALSE, headers |-> <<>>]
    /\ UNCHANGED frameClient

SendEventData ==
    /\ outbound' = [outbound EXCEPT !.sent = TRUE,
                                    !.headers = RequestHeaders(outbound.subscriber)]
    /\ UNCHANGED frameClient

NextClient ==
    \/ \E settings \in SubscriberSettings : SubscriberWrite(settings)
    \/ SendEventData

SpecClient == Init /\ [][NextClient]_vars

\* C26: in the request sent, the authentication header built from the
\* subscriber's auth settings keeps its value (Authorization for basic and
\* bearer, the API-key header for api_key), whatever custom_headers holds
C26_CustomHeadersKeepAuth ==
    outbound.sent =>
        LET sub == outbound.subscriber
            headers == outbound.headers
        IN /\ (sub.auth_type = "bearer" /\ sub.auth_token # "")
                 => headers["Authorization"] = "Bearer " \o sub.auth_token
           /\ (sub.auth_type = "basic" /\ sub.auth_token # "")
                 => headers["Authorization"] = "Basic " \o sub.auth_token
           /\ (sub.auth_type = "api_key" /\ sub.api_key # "")
                 => headers[sub.api_key_header] = sub.api_key

----------------------------------------------------------------------------
(* The Event Log under supersession and the archive/delete sweep: appends   *)
(* of create, write and unlink for one record, acknowledgements, the        *)
(* operator's unmark, the sweep, and a clock that passes both cutoffs.      *)

MaxSweepId == 3     \* appends stop once the id sequence has passed this value
SweepDayStep == 16  \* the clock of the sweep advances by this many days
MaxSweepDay == 33   \* and stops here

SweepAppend(ev) ==
    nextId <= MaxSweepId /\ AppendEvent(HostModel, 1, ev, "medium", "none", FALSE)

NextSweep ==
    \/ \E ev \in EventTypes : SweepAppend(ev)
    \/ \E i \in 1 .. MaxSweepId : MarkProcessed({i})
    \/ \E i \in 1 .. MaxSweepId : Unmark({i})
    \/ Cleanup
    \/ AdvanceDaysBy(SweepDayStep, MaxSweepDay)

SpecSweep == Init /\ [][NextSweep]_vars

\* C39: in every reachable state of the Event Log an archived entry is also
\* processed
C39_ArchivedImpliesProcessed ==
    \A e \in log : e.is_archived => e.is_processed

\* the entries of the pair of the append that has just returned
PairEntries(lg, ev) ==
    {e \in lg : e.model = lastOp'.model /\ e.record_id = lastOp'.record_id
                /\ e.event = ev}

Deleted == {e \in log : \A x \in log' : x.id # e.id}

\* the entries the step archives
Archived == {e \in log : ~e.is_archived /\ \E x \in log' : x.id = e.id /\ x.is_archived}

\* C22: cleanup_old_events archives only entries that are processed, not yet
\* archived and older than the archive cutoff, and deletes only entries that
\* are archived, before the sweep or by its first step, and older than the
\* delete cutoff; no step archives an entry that is not acknowledged, and
\* the sweep keeps every such entry that is not archived, whatever its age
C22_SweepTouchesOnlyProcessed ==
    [][/\ Cleanup =>
            /\ \A e \in Archived : e.is_processed /\ e.timestamp < today - 7
            /\ \A e \in Deleted :
                  /\ e.is_archived \/ (e.is_processed /\ e.timestamp < today - 7)
                  /\ e.timestamp < today - 30
            /\ \A e \in log : (~e.is_processed /\ ~e.is_archived) => e \in log'
            /\ \A x \in log' : \E e \in log :
                  x = e \/ (e \in Archived /\ x = [e EXCEPT !.is_archived = TRUE])
       /\ \A e \in Archived : e.is_processed
      ]_vars

\* the sweep has deleted the entry 1, archived the entry 3 and kept the
\* entry 2, which is as old as the entry 1 was and was never acknowledged
C22_Witness ==
    /\ nextId = 4
    /\ \A e \in log : e.event = "unlink"
    /\ {e.id : e \in log} = {2, 3}
    /\ \E e \in log : /\ e.id = 2 /\ ~e.is_processed /\ ~e.is_archived
                       /\ e.timestamp < today - 30
    /\ \E e \in log : e.id = 3 /\ e.is_archived /\ e.timestamp >= today - 30

----------------------------------------------------------------------------
(* Writes under a rule with tracked_fields, with and without a row of       *)
(* webhook.config for the model; no step of the hook raises.                *)

\* a rule for write that tracks the given fields (none: every field)
TrackedRule(tracked_fields) ==
    [Rule("write", FALSE) EXCEPT !.tracked_fields = tracked_fields]

\* webhook.rule create of a rule with tracked fields
TrackedRuleCreate(tracked_fields) ==
    /\ TrackedRule(tracked_fields) \notin rules
    /\ RuleCreateWith(TrackedRule(tracked_fields))

\* webhook.config create for the host model: UNIQUE(model_id)
ConfigCreate(events) ==
    /\ ~config.exists
    /\ config' = Config(events)
    /\ UNCHANGED <<logVars, concVars, rules, ruleCache, debounce, current_time,
                   hostRows, host, webhookEvents, dispatchVars>>

NextTracked ==
    \/ \E tracked_fields \in {{}, {"name"}} : TrackedRuleCreate(tracked_fields)
    \/ \E rl \in rules : RuleUnlink(rl)
    \/ \E events \in {{"create"}, {"create", "write", "unlink"}} : ConfigCreate(events)
    \/ \E r \in HostRecordIds : HostCreate(r, "none", FALSE)
    \/ \E r \in HostRecordIds, vals \in SUBSET FieldNames :
          HostWriteVals(r, vals, "none", FALSE)
    \/ Tick

SpecTracked == Init /\ [][NextTracked]_vars

\* the active rules of (host model, write)
ActiveWriteRules == {rl \in rules : rl.active /\ rl.operation = "write"}

\* C25: a write whose changed fields have no field in common with the
\* tracked_fields of any active rule of (model, write), each of which has
\* tracked_fields, appends no entry to the Event Log and creates no row of
\* webhook.event
C25_UntrackedWriteAppendsNothing ==
    [][\A r \in HostRecordIds, vals \in SUBSET FieldNames :
          (/\ HostWriteVals(r, vals, "none", FALSE)
           /\ ActiveWriteRules # {}
           /\ \A rl \in ActiveWriteRules :
                 rl.tracked_fields # {} /\ rl.tracked_fields \cap vals = {})
          => (Appended = {} /\ webhookEvents' = webhookEvents)]_vars

\* C35: while no invocation of the hook has appended an entry yet, none has
\* started a debounce window, so that a write that matches an active rule of
\* (model, write) by its changed fields and domain appends its entry
C35_NoWindowWithoutEvent ==
    [][\A r \in HostRecordIds, vals \in SUBSET FieldNames :
          (/\ HostWriteVals(r, vals, "none", FALSE)
           /\ nextId = 1
           /\ \E rl \in ActiveWriteRules :
                 MatchTrackedFields(rl, vals) /\ MatchDomain(rl, r))
          => Appended # {}]_vars

----------------------------------------------------------------------------
(* Two workers in process_event on the row 1 of webhook.event, each in its  *)
(* own transaction. A transaction reads the row as committed when it        *)
(* started; the UPDATE of an ORM write reaches the database at a flush,     *)
(* which the code does not place: at any point up to the commit. The UPDATE *)
(* takes the lock of the row, waits while another transaction holds it, and *)
(* fails when the committed row is no longer the one the transaction read.  *)

\* the transactions whose UPDATE of the row holds its lock
RowLockHolders == {w \in Workers : workers[w].flushed}

\* the committed row is the one the worker's transaction read, in the
\* columns process_event writes
SnapshotCurrent(w) ==
    /\ workers[w].seen.status = webhookEvents[1].status
    /\ workers[w].seen.retry_count = webhookEvents[1].retry_count

\* process_event up to the write of 'processing': the status is read from
\* the transaction's view of the row and nothing else guards the write
WorkerStart(w) ==
    /\ workers[w].pc = "idle"
    /\ Len(webhookEvents) >= 1
    /\ workers' = [workers EXCEPT ![w] =
          [IdleWorker EXCEPT !.seen = webhookEvents[1],
                             !.after_abandon =
                                 \E v \in Workers : workers[v].pc = "abandoned",
                             !.pc = IF webhookEvents[1].status \in {"pending", "failed"}
                                    THEN "processing" ELSE "refused"]]
    /\ UNCHANGED <<webhookEvents, deadLetters, audit, frameWorkers>>

\* the UPDATE of status = 'processing' reaches the database
WorkerFlush(w) ==
    /\ workers[w].pc \in {"processing", "posted"}
    /\ ~workers[w].flushed
    /\ RowLockHolders = {}
    /\ workers' = [workers EXCEPT ![w] =
          IF SnapshotCurrent(w) THEN [@ EXCEPT !.flushed = TRUE]
          ELSE [@ EXCEPT !.pc = "aborted"]]
    /\ UNCHANGED <<webhookEvents, deadLetters, audit, frameWorkers>>

\* send_event_data: the request is posted unless the attempt raises before
WorkerSend(w, outcome) ==
    /\ workers[w].pc = "processing"
    /\ workers' = [workers EXCEPT ![w].pc = "posted", ![w].outcome = outcome]
    /\ UNCHANGED <<webhookEvents, deadLetters, audit, frameWorkers>>

\* the rest of process_event and the commit of the transaction
WorkerCommit(w) ==
    /\ workers[w].pc = "posted"
    /\ RowLockHolders \subseteq {w}
    /\ IF workers[w].flushed \/ SnapshotCurrent(w)
       THEN /\ \E d \in {ProcessEvent(DispatchState, 1, workers[w].outcome)} :
                  /\ webhookEvents' = d.events
                  /\ deadLetters' = d.deadLetters
                  /\ audit' = d.audit
            /\ workers' = [workers EXCEPT ![w].pc = "done", ![w].flushed = FALSE]
       ELSE /\ workers' = [workers EXCEPT ![w].pc = "aborted"]
            /\ UNCHANGED <<webhookEvents, deadLetters, audit>>
    /\ UNCHANGED frameWorkers

\* the worker's call is over (a rollback releases what it held)
WorkerReset(w) ==
    /\ workers[w].pc \in {"refused", "done", "aborted", "abandoned"}
    /\ workers' = [workers EXCEPT ![w] = IdleWorker]
    /\ UNCHANGED <<webhookEvents, deadLetters, audit, frameWorkers>>

NextWorkers ==
    \/ \E max_retries \in MaxRetriesChoices : EnqueueUpTo(1, max_retries)
    \/ \E w \in Workers : WorkerStart(w)
    \/ \E w \in Workers : WorkerFlush(w)
    \/ \E w \in Workers, outcome \in Outcomes : WorkerSend(w, outcome)
    \/ \E w \in Workers : WorkerCommit(w)
    \/ \E w \in Workers : WorkerReset(w)

SpecWorkers == Init /\ [][NextWorkers]_vars

\* the worker has posted an HTTP request for the attempt it read
HasPosted(w) ==
    /\ workers[w].pc \in {"posted", "done", "aborted"}
    /\ workers[w].outcome \in {"success", "http_error"}

\* C28: of two workers that run process_event on the same pending or failed
\* row concurrently, at most one posts the HTTP request of that attempt
C28_OneDeliveryPerAttempt ==
    \A w1, w2 \in Workers :
        (w1 # w2 /\ HasPosted(w1) /\ HasPosted(w2))
        => workers[w1].seen # workers[w2].seen

----------------------------------------------------------------------------
(* The rule cache shared by the threads of one server process: a            *)
(* transaction that creates a rule, and threads that call _get_rules_for.   *)
(* _cache_valid and _rules_cache are class attributes; _invalidate_cache    *)
(* and _rebuild_cache take _cache_lock, the readers do not. A search        *)
(* returns the committed rows.                                              *)

ThreadOperations == {"create", "write"}

\* webhook.rule create in the transaction A: the row is inserted, not yet
\* committed, and the cache is invalidated under the lock
RuleTxCreate(op) ==
    /\ ~ruleTx.open
    /\ cacheLock = "free"
    /\ \A rl \in rules : RuleId(rl) # RuleId(Rule(op, FALSE))
    /\ ruleTx' = [open |-> TRUE, inserts |-> {Rule(op, FALSE)}]
    /\ ruleCache' = InvalidateCache(ruleCache)
    /\ UNCHANGED <<rules, readers, cacheLock, frameThreads>>

\* the transaction A commits: its rows become visible to the others
RuleTxCommit ==
    /\ ruleTx.open
    /\ rules' = rules \cup ruleTx.inserts
    /\ ruleTx' = NoRuleTx
    /\ UNCHANGED <<ruleCache, readers, cacheLock, frameThreads>>

\* _get_rules_for, the test of _cache_valid, read without the lock
ReaderCall(r, op) ==
    /\ readers[r].pc = "idle"
    /\ readers' = [readers EXCEPT ![r] =
          [IdleReader EXCEPT
              !.pc = IF ruleCache.valid THEN "get" ELSE "rebuild",
              !.operation = op,
              !.active_at_call = {rl \in ActiveRules(rules) : rl.operation = op},
              !.hit = ruleCache.valid,
              !.seen = IF ruleCache.valid THEN ruleCache.rules[<<HostModel, op>>]
                       ELSE {}]]
    /\ UNCHANGED <<rules, ruleCache, ruleTx, cacheLock, frameThreads>>

\* _rebuild_cache: the lock is taken, the two containers are emptied
\* (_cache_valid is left as it is) and the active rules are searched
RebuildBegin(r) ==
    /\ readers[r].pc = "rebuild"
    /\ cacheLock = "free"
    /\ cacheLock' = r
    /\ ruleCache' = [InvalidCache EXCEPT !.valid = ruleCache.valid]
    /\ readers' = [readers EXCEPT ![r].pc = "fill", ![r].rules = ActiveRules(rules)]
    /\ UNCHANGED <<rules, ruleTx, frameThreads>>

\* one turn of the loop of _rebuild_cache
RebuildAdd(r, rl) ==
    /\ readers[r].pc = "fill"
    /\ rl \in readers[r].rules
    /\ ruleCache' = [ruleCache EXCEPT
          !.rules[<<rl.model_name, rl.operation>>] = @ \cup {RuleId(rl)},
          !.tracked = @ \cup {rl.model_name}]
    /\ readers' = [readers EXCEPT ![r].rules = @ \ {rl}]
    /\ UNCHANGED <<rules, ruleTx, cacheLock, frameThreads>>

\* the end of _rebuild_cache: _cache_valid = True, the lock is released
RebuildFinish(r) ==
    /\ readers[r].pc = "fill"
    /\ readers[r].rules = {}
    /\ ruleCache' = [ruleCache EXCEPT !.valid = TRUE]
    /\ cacheLock' = "free"
    /\ readers' = [readers EXCEPT ![r].pc = "get"]
    /\ UNCHANGED <<rules, ruleTx, frameThreads>>

\* _rules_cache.get(cache_key, []) and browse(rule_ids).exists(), without
\* the lock
ReaderGet(r) ==
    /\ readers[r].pc = "get"
    /\ readers' = [readers EXCEPT
          ![r].pc = "returned",
          ![r].value = {rl \in rules :
                           RuleId(rl) \in ruleCache.rules[<<HostModel, readers[r].operation>>]}]
    /\ UNCHANGED <<rules, ruleCache, ruleTx, cacheLock, frameThreads>>

ReaderReset(r) ==
    /\ readers[r].pc = "returned"
    /\ readers' = [readers EXCEPT ![r] = IdleReader]
    /\ UNCHANGED <<rules, ruleCache, ruleTx, cacheLock, frameThreads>>

NextThreads ==
    \/ \E op \in ThreadOperations : RuleTxCreate(op)
    \/ RuleTxCommit
    \/ \E r \in Readers, op \in ThreadOperations : ReaderCall(r, op)
    \/ \E r \in Readers : RebuildBegin(r)
    \/ \E r \in Readers, rl \in rules : RebuildAdd(r, rl)
    \/ \E r \in Readers : RebuildFinish(r)
    \/ \E r \in Readers : ReaderGet(r)
    \/ \E r \in Readers : ReaderReset(r)

SpecThreads == Init /\ [][NextThreads]_vars

\* C29: once the transaction that changed the rules has committed, a cache
\* that is marked valid and that no thread is rebuilding holds the committed
\* active rules, so that the next _get_rules_for reflects the change
C29_ValidCacheReflectsCommit ==
    (~ruleTx.open /\ cacheLock = "free" /\ ruleCache.valid)
    => ruleCache = RebuildCache(rules)

\* C30: a call of _get_rules_for that found the cache valid with the rule of
\* its (model, operation) in it, a rule that stays active, returns that rule
\* and not an empty list, whatever _invalidate_cache and _rebuild_cache do
\* in other threads meanwhile
C30_ReaderSeesCompleteSnapshot ==
    \A r \in Readers :
        (/\ readers[r].pc = "returned"
         /\ readers[r].hit
         /\ readers[r].seen # {}
         /\ readers[r].active_at_call # {})
        => readers[r].value = readers[r].active_at_call

----------------------------------------------------------------------------
(* Workers that are abandoned in the middle of process_event: the process   *)
(* is killed or loses its connection, and the database rolls its            *)
(* transaction back. The passes start the workers.                          *)

\* the row 1 is one a pass selects
Selected ==
    /\ Len(webhookEvents) >= 1
    /\ 1 \in PendingSelection(webhookEvents) \cup RetrySelection(webhookEvents)

\* process_pending_events or process_retries calls process_event on the row
PassStart(w) == Selected /\ WorkerStart(w)

\* the worker dies as if its write of 'processing' had been committed
WorkerAbandon_MarkCommitted(w) ==
    /\ workers[w].pc \in {"processing", "posted"}
    /\ RowLockHolders \subseteq {w}
    /\ workers' = [workers EXCEPT ![w].pc = "abandoned", ![w].flushed = FALSE]
    /\ webhookEvents' = [webhookEvents EXCEPT ![1].status = "processing"]
    /\ UNCHANGED <<deadLetters, audit, frameWorkers>>

\* the worker dies after its write of 'processing': nothing of its
\* transaction was committed (process_event commits nowhere), the row keeps
\* the committed values and its lock is released
WorkerAbandon(w) ==
    /\ workers[w].pc \in {"processing", "posted"}
    /\ workers' = [workers EXCEPT ![w].pc = "abandoned", ![w].flushed = FALSE]
    /\ UNCHANGED <<webhookEvents, deadLetters, audit, frameWorkers>>

NextAbandon ==
    \/ EnqueueUpTo(1, MinOf(MaxRetriesChoices))
    \/ \E w \in Workers : PassStart(w)
    \/ \E w \in Workers : WorkerFlush(w)
    \/ \E w \in Workers, outcome \in Outcomes : WorkerSend(w, outcome)
    \/ \E w \in Workers : WorkerCommit(w)
    \/ \E w \in Workers : WorkerAbandon(w)
    \/ \E w \in Workers : WorkerReset(w)
    \/ TickMinute

\* the cron jobs keep running the passes and time keeps advancing
SpecAbandon ==
    /\ Init
    /\ [][NextAbandon]_vars
    /\ \A w \in Workers : WF_vars(PassStart(w)) /\ WF_vars(WorkerReset(w))
    /\ WF_vars(TickMinute)

----------------------------------------------------------------------------
(* The dispatcher over rows of webhook.event of the three priorities.       *)

MaxOrderEvents == 2 \* at most this many rows of webhook.event

\* webhook.event create with the given priority
EnqueuePriority(prio) ==
    /\ Len(webhookEvents) < MaxOrderEvents
    /\ webhookEvents' = Append(webhookEvents,
           [NewWebhookEvent(1, "create", "s1", prio)
               EXCEPT !.max_retries = MinOf(MaxRetriesChoices)])
    /\ UNCHANGED <<deadLetters, audit, minuteParity, frameDispatch>>

NextOrder ==
    \/ \E prio \in Priorities : EnqueuePriority(prio)
    \/ PendingPass
    \/ RetryPass
    \/ TickMinute

SpecOrder == Init /\ [][NextOrder]_vars

\* the order the dispatcher is to follow: high before medium before low
PriorityRank(p) ==
    CASE p = "high" -> 3
      [] p = "medium" -> 2
      [] p = "low" -> 1

\* the rows of webhook.audit a step adds, one for each row of webhook.event
\* the pass sent or rescheduled, in the order the pass processed them
AuditAdded == (Len(audit) + 1)..Len(audit')

\* C31: the rows a pass processes are processed by priority, high first,
\* then medium, then low, and by ascending timestamp within a priority
C31_PassOrderedByPriorityThenTime ==
    [][\A j, k \in AuditAdded :
          j < k =>
             \/ PriorityRank(webhookEvents[audit'[j].event_id].priority)
                   > PriorityRank(webhookEvents[audit'[k].event_id].priority)
             \/ /\ webhookEvents[audit'[j].event_id].priority
                      = webhookEvents[audit'[k].event_id].priority
                /\ audit'[j].event_id < audit'[k].event_id]_vars

----------------------------------------------------------------------------
(* The hook on the rows it writes itself. BaseWebhookHook inherits 'base',  *)
(* so that every create, write and unlink the hook makes on update.webhook, *)
(* webhook.event, webhook.errors and webhook.rule passes through the hook   *)
(* again. Rules may name any model.                                         *)

MaxNestedId == 2    \* no host mutation once the id sequence has passed this value
MaxNamedRules == 3  \* at most this many rules

\* the models of this part, with the segments of their dotted names
NameParts ==
    [m \in {"sale.order", "ir.cron", "irx.log", "update.webhook", "webhook.event",
            "webhook.rule", "webhook.errors"} |->
        CASE m = "sale.order" -> <<"sale", "order">>
          [] m = "ir.cron" -> <<"ir", "cron">>
          [] m = "irx.log" -> <<"irx", "log">>
          [] m = "update.webhook" -> <<"update", "webhook">>
          [] m = "webhook.event" -> <<"webhook", "event">>
          [] m = "webhook.rule" -> <<"webhook", "rule">>
          [] m = "webhook.errors" -> <<"webhook", "errors">>]

NamedModels == DOMAIN NameParts

\* the list of _webhook_is_model_tracked
InternalModels ==
    {"webhook.rule", "webhook.event", "update.webhook", "webhook.config",
     "webhook.subscriber", "webhook.audit", "webhook.retry", "webhook.template",
     "user.sync.state", "webhook.errors", "webhook.cleanup.cron"}

\* _name.startswith('ir.') or _name in the list
IsInternalModel_None(m) == FALSE

IsInternalModel(m) ==
    \/ Len(NameParts[m]) > 1 /\ NameParts[m][1] = "ir"
    \/ m \in InternalModels

\* _webhook_is_model_tracked for the model m
IsTrackedName(m) ==
    /\ ~IsInternalModel(m)
    /\ m \in {rl.model_name : rl \in ActiveRules(rules)}

\* a rule that names the model m
NamedRule(m, op) == [Rule(op, FALSE) EXCEPT !.model_name = m]

\* the writes of trigger_event for the rule rl, as calls of the hook: the
\* write of last_trigger, the create of the entry with the unlink of the
\* entries it supersedes or the row of webhook.errors if it fails, and the
\* create of a row of webhook.event for each enabled subscriber
OwnWrites(rl, c) ==
    <<[model |-> "webhook.rule", operation |-> "write"]>>
    \o (IF c.raised THEN <<[model |-> "webhook.errors", operation |-> "create"]>>
        ELSE (IF \E e \in log : e \notin c.log
              THEN <<[model |-> "update.webhook", operation |-> "unlink"]>>
              ELSE <<>>)
             \o (IF c.ret # 0
                 THEN <<[model |-> "update.webhook", operation |-> "create"]>>
                 ELSE <<>>))
    \o (IF c.ret # 0
        THEN [k \in 1..Cardinality(Enabled(rl.subscriber_ids)) |->
                 [model |-> "webhook.event", operation |-> "create"]]
        ELSE <<>>)

\* the hook on a create, write or unlink of the record 1 of the model m:
\* pending is what is left of the hook's own writes to pass through the hook
HookOn(m, op, fail, pending) ==
    IF IsTrackedName(m)
          /\ \E rl \in ActiveRules(rules) : rl.model_name = m /\ rl.operation = op
    THEN \E rl \in {x \in ActiveRules(rules) : x.model_name = m /\ x.operation = op} :
         \E c \in {CreateOne(log, nextId, m, 1, op, "medium", today, fail)} :
            /\ log' = c.log
            /\ nextId' = c.nextId
            /\ errors' = IF c.raised THEN LogError(errors, m, 1, FALSE) ELSE errors
            /\ webhookEvents' =
                  IF c.ret = 0 THEN webhookEvents
                  ELSE webhookEvents
                       \o [k \in 1..Cardinality(Enabled(rl.subscriber_ids)) |->
                              [NewWebhookEvent(1, op, "s1", rl.priority)
                                  EXCEPT !.model = m]]
            /\ nested' = pending \o OwnWrites(rl, c)
    ELSE /\ nested' = pending
         /\ UNCHANGED <<log, nextId, errors, webhookEvents>>

\* webhook.rule create for a rule that names the model m
NameRule(m, op) ==
    /\ nested = <<>>
    /\ Cardinality(rules) < MaxNamedRules
    /\ RuleCreateWith(NamedRule(m, op))

\* a create, write or unlink on a record of the model m, by a user or by
\* another module
HostMutation(m, op, fail) ==
    /\ nested = <<>>
    /\ nextId <= MaxNestedId
    /\ Len(errors) < MaxErrors
    /\ HookOn(m, op, fail, <<>>)
    /\ UNCHANGED <<today, pullRes, lastOp, concVars, hookVars, deadLetters, audit,
                   minuteParity, clock, attempts, apiVars, workers, ruleTx, readers,
                   cacheLock>>

\* one of the hook's own writes passes through the hook
NestedHook ==
    /\ nested # <<>>
    /\ HookOn(Head(nested).model, Head(nested).operation, "none", Tail(nested))
    /\ UNCHANGED <<today, pullRes, lastOp, concVars, hookVars, deadLetters, audit,
                   minuteParity, clock, attempts, apiVars, workers, ruleTx, readers,
                   cacheLock>>

NextNested ==
    \/ \E m \in NamedModels, op \in Operations : NameRule(m, op)
    \/ \E m \in NamedModels, op \in Operations, fail \in {"none", "insert"} :
          HostMutation(m, op, fail)
    \/ NestedHook

SpecNested == Init /\ [][NextNested]_vars

\* C33: the pass of one of the hook's own writes through the hook appends no
\* entry, creates no row of webhook.event or webhook.errors and makes no
\* further write, whatever models the active rules name, so that the
\* handling of a host mutation ends after the writes of its own triggers
C33_OwnWritesProduceNoEvents ==
    [][nested # <<>>
       => /\ log' = log
          /\ webhookEvents' = webhookEvents
          /\ errors' = errors
          /\ nested' = Tail(nested)]_vars

\* a host mutation was handled to its end, with one entry appended, while
\* active rules name update.webhook and ir.cron
C33_Witness ==
    /\ nested = <<>>
    /\ Cardinality(log) = 1
    /\ Len(webhookEvents) = 1
    /\ \E rl \in rules : rl.model_name = "update.webhook" /\ rl.operation = "create"
    /\ \E rl \in rules : rl.model_name = "ir.cron"

----------------------------------------------------------------------------
(* The orphan cleanup of webhook.cleanup.cron among the host operations.    *)

\* the record the entry names is not found: model_obj.search([('id', '=',
\* record_id)]) is empty
IsOrphan(e) == e.model = HostModel /\ hostRows[e.record_id] # "live"

\* clean_webhook_records: every entry whose record does not exist is deleted
CleanWebhookRecords ==
    /\ log' = {e \in log : ~IsOrphan(e)}
    /\ UNCHANGED <<nextId, errors, rules, ruleCache, debounce, current_time, hostRows,
                   host, webhookEvents, frameHook>>

NextOrphan ==
    \/ \E op \in Operations : RuleCreate(op, FALSE)
    \/ \E r \in HostRecordIds : HostCreate(r, "none", FALSE)
    \/ \E r \in HostRecordIds : HostWrite(r, "none", FALSE)
    \/ \E r \in HostRecordIds : HostUnlink(r, "none", FALSE)
    \/ Tick
    \/ CleanWebhookRecords

SpecOrphan == Init /\ [][NextOrphan]_vars

====
